---- MODULE Spec2Model ----
(***************************************************************************)
(* A model of agent-eval's core: the free-text parser (core/parser.py),    *)
(* the evaluator (core/evaluator.py), the schema validation                *)
(* (core/schema.py) and the fixture loader (core/loader.py).               *)
(*                                                                         *)
(* Text is a sequence of one-character strings, so that lower-casing,      *)
(* stripping, substring search and the regular expressions are computed    *)
(* character by character as Python computes them.  An Optional value is   *)
(* a sequence of length at most one: <<>> is None and <<v>> is the value   *)
(* v.  A price is an integer number of mills (1/1000 USD), so 1000 is      *)
(* $1.00 and 1004 is $1.004: the resolution below one cent that the        *)
(* 1-cent tolerance and the rounding to two decimals need.                 *)
(***************************************************************************)
EXTENDS Integers, Sequences, FiniteSets, TLC

----------------------------------------------------------------------------
(* Optional[T] *)

None == <<>>

Some(v) == <<v>>

IsNone(o) == o = <<>>

Val(o) == o[1]

----------------------------------------------------------------------------
(* Python's str operations, on sequences of characters *)

UpperCase == <<"A","B","C","D","E","F","G","H","I","J","K","L","M","N","O","P","Q","R","S",
    "T","U","V","W","X","Y","Z">>

LowerCase == <<"a","b","c","d","e","f","g","h","i","j","k","l","m","n","o","p","q","r","s",
    "t","u","v","w","x","y","z">>

DigitChars == <<"0","1","2","3","4","5","6","7","8","9">>

\* str.lower() on one character
ToLower ==
    [c \in {UpperCase[i] : i \in 1..Len(UpperCase)} |->
        LowerCase[CHOOSE i \in 1..Len(UpperCase) : UpperCase[i] = c]]

lower_char(c) == IF c \in DOMAIN ToLower THEN ToLower[c] ELSE c

\* str.lower()
lower(s) == [i \in 1..Len(s) |-> lower_char(s[i])]

\* the characters str.strip() removes and the regular expressions' \s matches
SpaceChars == {" ", "\n", "\t"}

is_space(c) == c \in SpaceChars

\* the regular expressions' [0-9]
Digits == {DigitChars[i] : i \in 1..Len(DigitChars)}

is_digit(c) == c \in Digits

digit_value(c) == (CHOOSE i \in 1..Len(DigitChars) : DigitChars[i] = c) - 1

\* the first index at or after i whose character is not in chars,
\* Len(s) + 1 when there is none: where a greedy [chars]* started at i stops
span_end(s, i, chars) ==
    IF \E j \in i..Len(s) : s[j] \notin chars
    THEN CHOOSE j \in i..Len(s) : s[j] \notin chars /\ \A k \in i..(j - 1) : s[k] \in chars
    ELSE Len(s) + 1

\* the first index at or after i whose character is in stops, Len(s) + 1
\* when there is none: where a greedy [^stops]* started at i stops
stop_at(s, i, stops) ==
    IF \E j \in i..Len(s) : s[j] \in stops
    THEN CHOOSE j \in i..Len(s) : s[j] \in stops /\ \A k \in i..(j - 1) : s[k] \notin stops
    ELSE Len(s) + 1

\* the least member of a set of indices, 0 when it is empty: where the
\* leftmost match of a search starts
leftmost(indices) ==
    IF indices = {} THEN 0 ELSE CHOOSE i \in indices : \A k \in indices : i <= k

\* str.strip()
strip(s) ==
    IF \A i \in 1..Len(s) : is_space(s[i])
    THEN <<>>
    ELSE LET first == span_end(s, 1, SpaceChars)
             last == CHOOSE j \in 1..Len(s) :
                        ~is_space(s[j]) /\ \A k \in (j + 1)..Len(s) : is_space(s[k])
         IN  SubSeq(s, first, last)

\* str.rstrip(":")
rstrip_colon(s) ==
    IF \A i \in 1..Len(s) : s[i] = ":"
    THEN <<>>
    ELSE SubSeq(s, 1, CHOOSE j \in 1..Len(s) :
                        s[j] # ":" /\ \A k \in (j + 1)..Len(s) : s[k] = ":")

\* lit occurs in s at index i
starts_at(s, i, lit) ==
    /\ i >= 1
    /\ i + Len(lit) - 1 <= Len(s)
    /\ SubSeq(s, i, i + Len(lit) - 1) = lit

\* the lower-case lit occurs in s at index i when case is ignored
starts_at_nocase(s, i, lit) ==
    /\ i >= 1
    /\ i + Len(lit) - 1 <= Len(s)
    /\ \A k \in 1..Len(lit) : lower_char(s[i + k - 1]) = lit[k]

\* s.startswith(lit)
startswith(s, lit) == starts_at(s, 1, lit)

\* needle in hay
contains(hay, needle) == \E i \in 1..(Len(hay) - Len(needle) + 1) : starts_at(hay, i, needle)

\* str.splitlines(), for the line terminator "\n"
RECURSIVE splitlines(_)
splitlines(s) ==
    IF s = <<>>
    THEN <<>>
    ELSE LET nl == stop_at(s, 1, {"\n"})
         IN  <<SubSeq(s, 1, nl - 1)>> \o splitlines(SubSeq(s, nl + 1, Len(s)))

\* " ".join(parts)
RECURSIVE join_space(_)
join_space(parts) ==
    IF parts = <<>>
    THEN <<>>
    ELSE IF Len(parts) = 1
         THEN parts[1]
         ELSE parts[1] \o <<" ">> \o join_space(Tail(parts))

\* the value of a run of decimal digits
RECURSIVE digits_value(_)
digits_value(ds) ==
    IF ds = <<>>
    THEN 0
    ELSE 10 * digits_value(SubSeq(ds, 1, Len(ds) - 1)) + digit_value(ds[Len(ds)])

\* float(text) for the texts _RE_PRICE captures: digits, or digits "." digit digit.
\* exc is the exception float() raises for any other text; v is in mills.
py_float(text) ==
    LET dot == span_end(text, 1, Digits)
        whole == dot = Len(text) + 1 /\ Len(text) > 0
        cents == /\ dot > 1
                 /\ dot + 2 = Len(text)
                 /\ text[dot] = "."
                 /\ is_digit(text[dot + 1])
                 /\ is_digit(text[dot + 2])
    IN  IF whole
        THEN [exc |-> None, v |-> 1000 * digits_value(text)]
        ELSE IF cents
             THEN [exc |-> None,
                   v |-> 1000 * digits_value(SubSeq(text, 1, dot - 1))
                         + 100 * digit_value(text[dot + 1])
                         + 10 * digit_value(text[dot + 2])]
             ELSE [exc |-> Some("ValueError"), v |-> 0]

----------------------------------------------------------------------------
(* core/parser.py: the regular expressions *)

\* where \s* started at i stops
skip_ws(s, i) == span_end(s, i, SpaceChars)

\* _RE_PRICE matches at index i:  \$ \s* ( [0-9]+ (?: \. [0-9]{2} )? )
RE_PRICE_at(s, i) ==
    /\ i <= Len(s)
    /\ s[i] = "$"
    /\ LET d == skip_ws(s, i + 1) IN d <= Len(s) /\ is_digit(s[d])

\* group(1) of _RE_PRICE's match at index i
RE_PRICE_group(s, i) ==
    LET d == skip_ws(s, i + 1)
        e == span_end(s, d, Digits)
        frac == /\ e + 2 <= Len(s)
                /\ s[e] = "."
                /\ is_digit(s[e + 1])
                /\ is_digit(s[e + 2])
    IN  SubSeq(s, d, IF frac THEN e + 2 ELSE e - 1)

\* group(1) of _RE_PRICE's match at index i, None when i is 0
RE_PRICE_match(s, i) == IF i = 0 THEN None ELSE Some(RE_PRICE_group(s, i))

\* _RE_PRICE.search(s): group(1) of the leftmost match, None without a match
RE_PRICE_search(s) == RE_PRICE_match(s, leftmost({i \in 1..Len(s) : RE_PRICE_at(s, i)}))

\* [^\s)]
is_url_char(c) == ~is_space(c) /\ c # ")"

\* the index after the scheme when  https?://  matches at index i, 0 otherwise
url_scheme_end(s, i) ==
    IF starts_at(s, i, <<"h","t","t","p",":","/","/">>)
    THEN i + 7
    ELSE IF starts_at(s, i, <<"h","t","t","p","s",":","/","/">>) THEN i + 8 ELSE 0

\* _RE_URL matches at index i:  https?://[^\s)]+
RE_URL_at(s, i) ==
    LET b == url_scheme_end(s, i) IN b > 0 /\ b <= Len(s) /\ is_url_char(s[b])

\* group(0) of _RE_URL's match at index i, None when i is 0
RE_URL_match(s, i) ==
    IF i = 0
    THEN None
    ELSE Some(SubSeq(s, i, stop_at(s, url_scheme_end(s, i), SpaceChars \cup {")"}) - 1))

\* _RE_URL.search(s): group(0) of the leftmost match, None without a match
RE_URL_search(s) == RE_URL_match(s, leftmost({i \in 1..Len(s) : RE_URL_at(s, i)}))

\* the index after lit when lit, compared ignoring case, follows \s* from
\* index i; 0 when it does not
after_ws_lit(s, i, lit) ==
    IF i = 0
    THEN 0
    ELSE LET p == skip_ws(s, i)
         IN  IF starts_at_nocase(s, p, lit) THEN p + Len(lit) ELSE 0

\* the index after the colon when the label of _RE_CHOSEN,
\*   chosen retailer \s* \+ \s* price \s* \+ \s* url \s* :      (re.IGNORECASE)
\* matches at index i; 0 otherwise
chosen_label_end(s, i) ==
    IF starts_at_nocase(s, i, <<"c","h","o","s","e","n"," ","r","e","t","a","i","l","e","r">>)
    THEN after_ws_lit(s,
           after_ws_lit(s,
             after_ws_lit(s,
               after_ws_lit(s,
                 after_ws_lit(s, i + 15, <<"+">>),
                 <<"p","r","i","c","e">>),
               <<"+">>),
             <<"u","r","l">>),
           <<":">>)
    ELSE 0

\* where group(1) of _RE_CHOSEN starts, for the label ending before index c:
\* \s* takes the whole run of white space when a character follows it (that
\* character is no line break, so .+ starts there); at the end of the text it
\* gives characters back until .+ can start on one that is no line break.
\* 0 when .+ can start nowhere.
chosen_group_start(s, c) ==
    IF c = 0
    THEN 0
    ELSE IF skip_ws(s, c) <= Len(s)
         THEN skip_ws(s, c)
         ELSE IF \E k \in c..Len(s) : s[k] # "\n"
              THEN CHOOSE k \in c..Len(s) :
                       s[k] # "\n" /\ \A j \in (k + 1)..Len(s) : s[j] = "\n"
              ELSE 0

\* where group(1) starts when _RE_CHOSEN matches at index i, 0 when it does not
RE_CHOSEN_at(s, i) == chosen_group_start(s, chosen_label_end(s, i))

\* group(1) of _RE_CHOSEN for a match whose group starts at g: the rest of
\* the line; None when g is 0
RE_CHOSEN_match(s, g) ==
    IF g = 0 THEN None ELSE Some(SubSeq(s, g, stop_at(s, g, {"\n"}) - 1))

\* the value of at[i] for the least i of its domain where it is not 0; 0
\* when it is 0 everywhere
first_nonzero(at) ==
    IF \A i \in DOMAIN at : at[i] = 0
    THEN 0
    ELSE at[CHOOSE i \in DOMAIN at : at[i] # 0 /\ \A k \in DOMAIN at : k < i => at[k] = 0]

\* _RE_CHOSEN.search(s): group(1) of the leftmost match, None without a match
RE_CHOSEN_search(s) ==
    RE_CHOSEN_match(s, first_nonzero([i \in 1..Len(s) |-> RE_CHOSEN_at(s, i)]))

----------------------------------------------------------------------------
(* core/parser.py: the parser *)

Amazon == <<"A","m","a","z","o","n">>

BestBuy == <<"B","e","s","t"," ","B","u","y">>

Apple == <<"A","p","p","l","e">>

Unknown == <<"U","n","k","n","o","w","n">>

\* the retailer a lower-cased text names: "amazon" before "best buy" or
\* "bestbuy" before "apple"; None when it names none
retailer_in(lowered) ==
    IF contains(lowered, <<"a","m","a","z","o","n">>)
    THEN Some(Amazon)
    ELSE IF contains(lowered, <<"b","e","s","t"," ","b","u",
        "y">>) \/ contains(lowered, <<"b","e","s","t","b","u","y">>)
         THEN Some(BestBuy)
         ELSE IF contains(lowered, <<"a","p","p","l","e">>) THEN Some(Apple) ELSE None

_infer_retailer(text) == retailer_in(lower(text))

_after_colon(line) ==
    IF contains(line, <<":">>)
    THEN strip(SubSeq(line, stop_at(line, 1, {":"}) + 1, Len(line)))
    ELSE strip(line)

ParsedOffer(retailer, price_usd, url, availability, seller, variant_match) ==
    [retailer |-> retailer,
     price_usd |-> price_usd,
     url |-> url,
     availability |-> availability,
     seller |-> seller,
     variant_match |-> variant_match,
     listing_id |-> None,
     listing_id_type |-> None]

\* the dict of one retailer before any field is captured
NoFields ==
    [price |-> None, url |-> None, availability |-> None, seller |-> None,
     variant_match |-> None]

\* not fields.get(key): the key is missing, or its text is empty
unset(field) == IsNone(field) \/ Val(field) = <<>>

\* if found and not fields.get(key): fields[key] = found
captured(field, found) == IF ~IsNone(found) /\ unset(field) THEN found ELSE field

\* what a line sets variant_match to, from the lower-cased text after its colon
variant_text(value) ==
    IF value \in {<<"y","e","s">>, <<"t","r","u","e">>}
    THEN Some(<<"t","r","u","e">>)
    ELSE IF value \in {<<"n","o">>, <<"f","a","l","s","e">>} THEN Some(<<"f","a","l","s",
        "e">>) ELSE None

\* the text after the colon of a line that carries the word, None for a
\* line that does not
labelled(line, word) ==
    IF contains(lower(line), word) THEN Some(_after_colon(line)) ELSE None

\* variant_text of a line that carries "variant match"
labelled_variant(line) ==
    IF contains(lower(line), <<"v","a","r","i","a","n","t"," ","m","a","t","c","h">>)
    THEN variant_text(lower(_after_colon(line)))
    ELSE None

_capture_line_fields(fields, line) ==
    [price |-> captured(fields.price, RE_PRICE_search(line)),
     url |-> captured(fields.url, RE_URL_search(line)),
     availability |-> captured(fields.availability, labelled(line, <<"a","v","a","i","l",
         "a","b","i","l","i","t","y">>)),
     seller |-> captured(fields.seller, labelled(line, <<"s","e","l","l","e","r">>)),
     variant_match |-> captured(fields.variant_match, labelled_variant(line))]

\* float(fields["price"]), None on ValueError
float_or_none(conv) == IF IsNone(conv.exc) THEN Some(conv.v) ELSE None

_build_offer(retailer, fields) ==
    ParsedOffer(retailer,
                IF unset(fields.price) THEN None ELSE float_or_none(py_float(Val(fields.price))),
                fields.url,
                fields.availability,
                fields.seller,
                IF fields.variant_match = Some(<<"t","r","u","e">>)
                THEN Some(TRUE)
                ELSE IF fields.variant_match = Some(<<"f","a","l","s",
                    "e">>) THEN Some(FALSE) ELSE None)

\* the index of retailer's entry in the insertion-ordered dict, 0 when absent
entry_of(offers_by_retailer, retailer) ==
    leftmost({i \in 1..Len(offers_by_retailer) : offers_by_retailer[i].retailer = retailer})

\* setdefault that puts a new entry in front at every call
setdefault_anew(offers_by_retailer, retailer) ==
    <<[retailer |-> retailer, fields |-> NoFields]>> \o offers_by_retailer

\* offers_by_retailer.setdefault(current_retailer, {})
setdefault(offers_by_retailer, retailer) ==
    IF entry_of(offers_by_retailer, retailer) = 0
    THEN Append(offers_by_retailer, [retailer |-> retailer, fields |-> NoFields])
    ELSE offers_by_retailer

\* _capture_line_fields(offers_by_retailer[current_retailer], line)
capture_in(offers_by_retailer, retailer, line) ==
    [offers_by_retailer EXCEPT
        ![entry_of(offers_by_retailer, retailer)].fields = _capture_line_fields(@, line)]

\* a or b of two Optionals: the first when it is not None
or_else(a, b) == IF ~IsNone(a) THEN a ELSE b

\* the second half of a pass of the loop over the lines: the line's fields
\* go to the current retailer's entry, when there is a current retailer
capture_line(st, line, current_retailer) ==
    IF IsNone(current_retailer)
    THEN st
    ELSE [current_retailer |-> current_retailer,
          offers_by_retailer |->
              capture_in(setdefault(st.offers_by_retailer, Val(current_retailer)),
                         Val(current_retailer), line)]

\* scan_line with a current retailer that, once set, never switches
scan_line_first_retailer_stays(st, line) ==
    capture_line(st, line, or_else(st.current_retailer, retailer_in(lower(line))))

\* one pass of the loop over the lines: the current retailer switches when
\* the line names one
scan_line(st, line) ==
    capture_line(st, line, or_else(retailer_in(lower(line)), st.current_retailer))

RECURSIVE scan_lines(_, _)
scan_lines(st, lines) ==
    IF lines = <<>>
    THEN st
    ELSE scan_lines(scan_line(st, Head(lines)), Tail(lines))

\* lines[idx] if idx < len(lines) else ""     (idx counts from 1 here)
line_or_empty(lines, idx) == IF idx <= Len(lines) THEN lines[idx] ELSE <<>>

ChosenLabel == <<"c","h","o","s","e","n"," ","r","e","t","a","i","l","e","r"," ","+"," ",
    "p","r","i","c","e"," ","+"," ","u","r","l">>

is_label_line(line) == rstrip_colon(lower(strip(line))) = ChosenLabel

\* a float() result as an Optional[float]
as_optional(conv) == [exc |-> conv.exc, v |-> Some(conv.v)]

\* price_of without "if price_match": None has no group()
price_of_unguarded(price_match) ==
    IF IsNone(price_match)
    THEN [exc |-> Some("AttributeError"), v |-> None]
    ELSE as_optional(py_float(Val(price_match)))

\* float(price_match.group(1)) if price_match else None
price_of(price_match) ==
    IF IsNone(price_match)
    THEN [exc |-> None, v |-> None]
    ELSE as_optional(py_float(Val(price_match)))

\* return ParsedOffer(retailer=retailer or "Unknown", price_usd=price_value,
\* url=url, ...), or the exception float() raised
chosen_parsed(retailer, price, url) ==
    [exc |-> price.exc,
     v |-> Some(ParsedOffer(IF IsNone(retailer) THEN Unknown ELSE Val(retailer),
                            price.v, url, None, None, None))]

\* the body of the loop at the label line, from the two lines after it
chosen_ahead(next_line, next_next_line) ==
    IF contains(lower(next_line), <<"n","o"," ","v","a","l","i","d"," ","c","h","o","i","c",
        "e">>)
    THEN [exc |-> None, v |-> None]
    ELSE chosen_parsed(_infer_retailer(next_line),
                      price_of(or_else(RE_PRICE_search(next_line),
                                       RE_PRICE_search(next_next_line))),
                      or_else(RE_URL_search(next_line), RE_URL_search(next_next_line)))

\* the loop returns at the first label line, lines[idx]; idx is 0 when
\* there is none
chosen_after(lines, idx) ==
    IF idx = 0
    THEN [exc |-> None, v |-> None]
    ELSE chosen_ahead(line_or_empty(lines, idx + 1), line_or_empty(lines, idx + 2))

_parse_chosen_offer_by_lines(lines) ==
    chosen_after(lines, leftmost({idx \in 1..Len(lines) : is_label_line(lines[idx])}))

\* chosen_in without the search for the URL: the offer has none
chosen_in_without_url(text) ==
    chosen_parsed(_infer_retailer(text), price_of(RE_PRICE_search(text)), None)

\* lines 131-148: the offer in group(1) of the match
chosen_in(text) ==
    chosen_parsed(_infer_retailer(text), price_of(RE_PRICE_search(text)), RE_URL_search(text))

\* lines 128-131, for the result of _RE_CHOSEN.search
chosen_from(match, lines) ==
    IF IsNone(match) THEN _parse_chosen_offer_by_lines(lines) ELSE chosen_in(Val(match))

_parse_chosen_offer(raw_text, lines) == chosen_from(RE_CHOSEN_search(raw_text), lines)

\* i + 1 when character c is at index i, i otherwise: an optional  c?
skip_opt(s, i, c) == IF i <= Len(s) /\ s[i] = c THEN i + 1 ELSE i

\* the index after  within budget \s* \(? \$?  when that matches at index i,
\* 0 otherwise
budget_label_end(s, i) ==
    IF starts_at_nocase(s, i, <<"w","i","t","h","i","n"," ","b","u","d","g","e","t">>)
    THEN skip_opt(s, skip_opt(s, skip_ws(s, i + 13), "("), "$")
    ELSE 0

\* the index after  [0-9.]+  started at index a; 0 when a is 0 or no such
\* character is there
amount_end(s, a) ==
    IF a = 0 \/ span_end(s, a, Digits \cup {"."}) = a
    THEN 0
    ELSE span_end(s, a, Digits \cup {"."})

\* the index after  \)? \? \s*  started at index c; 0 when c is 0 or there is
\* no question mark
question_end(s, c) ==
    IF c > 0 /\ skip_opt(s, c, ")") <= Len(s) /\ s[skip_opt(s, c, ")")] = "?"
    THEN skip_ws(s, skip_opt(s, c, ")") + 1)
    ELSE 0

\* the lower-cased  (yes|no)  at index d, None when d is 0 or neither is there
answer_at(s, d) ==
    IF d > 0 /\ starts_at_nocase(s, d, <<"y","e","s">>)
    THEN Some(<<"y","e","s">>)
    ELSE IF d > 0 /\ starts_at_nocase(s, d, <<"n","o">>) THEN Some(<<"n","o">>) ELSE None

\* the answer when _RE_WITHIN_BUDGET matches at index i, None otherwise:
\*   within budget \s* \(? \$? [0-9.]+ \s* hard cap \)? \? \s* (yes|no)
RE_WITHIN_BUDGET_at(s, i) ==
    answer_at(s,
      question_end(s,
        after_ws_lit(s, amount_end(s, budget_label_end(s, i)), <<"h","a","r","d"," ","c",
            "a","p">>)))

\* the first of a sequence of Optionals that is not None, None when all are
first_some(at) ==
    IF \A i \in DOMAIN at : IsNone(at[i])
    THEN None
    ELSE at[CHOOSE i \in DOMAIN at :
                ~IsNone(at[i]) /\ \A k \in DOMAIN at : k < i => IsNone(at[k])]

\* _RE_WITHIN_BUDGET.search(s): lower-cased group(1) of the leftmost match
RE_WITHIN_BUDGET_search(s) == first_some([i \in 1..Len(s) |-> RE_WITHIN_BUDGET_at(s, i)])

\* the next line starts with "yes" (TRUE), with "no" (FALSE), or with
\* neither (None), case ignored
next_line_answer(next_line) ==
    IF startswith(next_line, <<"y","e","s">>)
    THEN Some(TRUE)
    ELSE IF startswith(next_line, <<"n","o">>) THEN Some(FALSE) ELSE None

\* one pass of the loop over the lines, for the line at idx
budget_answer_at(lines, idx) ==
    IF startswith(lower(strip(lines[idx])), <<"w","i","t","h","i","n"," ","b","u","d","g",
        "e","t">>)
    THEN next_line_answer(lower(line_or_empty(lines, idx + 1)))
    ELSE None

\* the loop returns at the first line that starts "within budget" and is
\* followed by a yes or a no; it passes over the others
_parse_within_budget_by_lines(lines) ==
    first_some([idx \in 1..Len(lines) |-> budget_answer_at(lines, idx)])

\* match.group(1).lower() == "yes", or the search by lines without a match
budget_answer(match, lines) ==
    IF IsNone(match) THEN _parse_within_budget_by_lines(lines) ELSE Some(Val(match) = <<"y",
        "e","s">>)

_parse_within_budget(raw_text, lines) ==
    budget_answer(RE_WITHIN_BUDGET_search(raw_text), lines)

\* [line.strip() for line in normalized_text.splitlines() if line.strip()]
RECURSIVE stripped_lines(_)
stripped_lines(raw) ==
    IF raw = <<>>
    THEN <<>>
    ELSE (IF strip(Head(raw)) # <<>> THEN <<strip(Head(raw))>> ELSE <<>>)
         \o stripped_lines(Tail(raw))

RECURSIVE build_offers(_)
build_offers(offers_by_retailer) ==
    IF offers_by_retailer = <<>>
    THEN <<>>
    ELSE <<_build_offer(Head(offers_by_retailer).retailer, Head(offers_by_retailer).fields)>>
         \o build_offers(Tail(offers_by_retailer))

\* the value of the call: the ParsedAgentOutput, or the exception raised
\* while the chosen offer was parsed
ParsedAgentOutput(raw_text, offers, chosen, within_budget) ==
    [raw_text |-> raw_text,
     offers |-> offers,
     chosen |-> chosen.v,
     within_budget |-> within_budget,
     exc |-> chosen.exc]

\* lines 46-74
parse_lines(normalized_text, lines) ==
    ParsedAgentOutput(
        normalized_text,
        build_offers(scan_lines([current_retailer |-> None, offers_by_retailer |-> <<>>],
                                lines).offers_by_retailer),
        _parse_chosen_offer(normalized_text, lines),
        _parse_within_budget(normalized_text, lines))

\* lines 44-74
parse_text(normalized_text) ==
    parse_lines(normalized_text, stripped_lines(splitlines(normalized_text)))

\* raw_text is Optional: None, or the text
parse_agent_output(raw_text) == parse_text(IF IsNone(raw_text) THEN <<>> ELSE Val(raw_text))

----------------------------------------------------------------------------
(* core/schema.py: documents.  A document is what json.loads returns: a     *)
(* value tagged with its Python type.  A float is held in mills, an int as  *)
(* itself, a dict as a function from its keys to values.                    *)

JNull == [k |-> "null"]

JStr(s) == [k |-> "str", s |-> s]

JBool(b) == [k |-> "bool", b |-> b]

JInt(n) == [k |-> "int", n |-> n]

JFloat(mills) == [k |-> "float", n |-> mills]

JList(items) == [k |-> "list", items |-> items]

JObj(f) == [k |-> "dict", f |-> f]

\* data.get(key) on a dict: None for a missing key as for a null
get(data, key) ==
    IF data.k = "dict" /\ key \in DOMAIN data.f THEN data.f[key] ELSE JNull

\* a call that returned v
Ok(v) == [exc |-> None, v |-> v]

\* raise SchemaError(f"Expected {expected} for '{key}'.")
SchemaError(expected, key) ==
    [exc |-> Some([type |-> "SchemaError", expected |-> expected, key |-> key]),
     v |-> None]

\* an exception of another type, raised by the interpreter or the library
Raise(type) ==
    [exc |-> Some([type |-> type, expected |-> "", key |-> ""]), v |-> None]

\* the number at s[i..i+n-1] when those are digits, -1 otherwise
digits_at(s, i, n) ==
    IF i + n - 1 <= Len(s) /\ \A j \in i..(i + n - 1) : is_digit(s[j])
    THEN digits_value(SubSeq(s, i, i + n - 1))
    ELSE -1

days_in_month(year, month) ==
    IF month = 2
    THEN IF year % 4 = 0 /\ (year % 100 # 0 \/ year % 400 = 0) THEN 29 ELSE 28
    ELSE IF month \in {4, 6, 9, 11} THEN 30 ELSE 31

\* YYYY-MM-DD at the start of s names a day of the calendar
iso_date_ok(s) ==
    LET year == digits_at(s, 1, 4)
        month == digits_at(s, 6, 2)
        day == digits_at(s, 9, 2)
    IN  /\ Len(s) >= 10
        /\ s[5] = "-"
        /\ s[8] = "-"
        /\ year >= 1
        /\ month >= 1
        /\ month <= 12
        /\ day >= 1
        /\ day <= days_in_month(year, month)

\* t is HH, HH:MM or HH:MM:SS
iso_clock_form(t) ==
    /\ Len(t) \in {2, 5, 8}
    /\ digits_at(t, 1, 2) >= 0
    /\ Len(t) >= 5 => (t[3] = ":" /\ digits_at(t, 4, 2) >= 0)
    /\ Len(t) = 8 => (t[6] = ":" /\ digits_at(t, 7, 2) >= 0)

\* the seconds that t, of the form of a clock, counts
iso_clock_seconds(t) ==
    3600 * digits_at(t, 1, 2)
    + (IF Len(t) >= 5 THEN 60 * digits_at(t, 4, 2) ELSE 0)
    + (IF Len(t) = 8 THEN digits_at(t, 7, 2) ELSE 0)

\* t is a time of day within the ranges of a clock
iso_clock_ok(t) ==
    /\ iso_clock_form(t)
    /\ digits_at(t, 1, 2) <= 23
    /\ Len(t) >= 5 => digits_at(t, 4, 2) <= 59
    /\ Len(t) = 8 => digits_at(t, 7, 2) <= 59

\* t is a time of day with an optional UTC offset, + or - and a clock form
\* that counts less than a day
iso_time_ok(t) ==
    LET sign == stop_at(t, 1, {"+", "-"})
        offset == SubSeq(t, sign + 1, Len(t))
    IN  /\ iso_clock_ok(SubSeq(t, 1, sign - 1))
        /\ sign <= Len(t) => (iso_clock_form(offset) /\ iso_clock_seconds(offset) < 86400)

\* datetime.fromisoformat(s) returns, for texts in the extended format
\* without fractions of a second: a date, or a date, one separator character
\* and a time
fromisoformat_ok(s) ==
    /\ iso_date_ok(s)
    /\ Len(s) > 10 => (Len(s) > 11 /\ iso_time_ok(SubSeq(s, 12, Len(s))))

_parse_iso8601(value) ==
    LET zulu == Len(value) > 0 /\ value[Len(value)] = "Z"
        text == IF zulu THEN SubSeq(value, 1, Len(value) - 1) \o <<"+","0","0",":","0",
            "0">> ELSE value
    IN  IF fromisoformat_ok(text) THEN Ok(text) ELSE Raise("ValueError")

_require_dict(data, key) ==
    LET value == get(data, key)
    IN  IF value.k # "dict" THEN SchemaError("object", key) ELSE Ok(value)

_require_list(data, key) ==
    LET value == get(data, key)
    IN  IF value.k # "list" THEN SchemaError("list", key) ELSE Ok(value.items)

_opt_list(data, key) ==
    LET value == get(data, key)
    IN  IF value.k = "null"
        THEN Ok(<<>>)
        ELSE IF value.k # "list" THEN SchemaError("list", key) ELSE Ok(value.items)

\* _require_str without the check: a missing field reads as the empty text
_require_str_lenient(data, key) ==
    LET value == get(data, key)
    IN  IF value.k # "str" THEN Ok(<<>>) ELSE Ok(strip(value.s))

_require_str(data, key) ==
    LET value == get(data, key)
    IN  IF value.k # "str" \/ strip(value.s) = <<>>
        THEN SchemaError("non-empty string", key)
        ELSE Ok(strip(value.s))

_opt_str(data, key) ==
    LET value == get(data, key)
    IN  IF value.k = "null"
        THEN Ok(None)
        ELSE IF value.k # "str" THEN SchemaError("string", key) ELSE Ok(Some(strip(value.s)))

_require_bool(data, key) ==
    LET value == get(data, key)
    IN  IF value.k # "bool" THEN SchemaError("boolean", key) ELSE Ok(value.b)

_opt_bool(data, key) ==
    LET value == get(data, key)
    IN  IF value.k = "null"
        THEN Ok(None)
        ELSE IF value.k # "bool" THEN SchemaError("boolean", key) ELSE Ok(Some(value.b))

\* isinstance(value, (int, float)) holds of a bool too: bool is a subclass
\* of int, and float(True) is 1.0
_opt_float(data, key) ==
    LET value == get(data, key)
    IN  IF value.k = "null"
        THEN Ok(None)
        ELSE IF value.k = "float"
             THEN Ok(Some(value.n))
             ELSE IF value.k = "int"
                  THEN Ok(Some(1000 * value.n))
                  ELSE IF value.k = "bool"
                       THEN Ok(Some(IF value.b THEN 1000 ELSE 0))
                       ELSE SchemaError("number", key)

\* the loop over the items: the first item that is no non-empty string raises
RECURSIVE str_items(_, _)
str_items(items, key) ==
    IF items = <<>>
    THEN Ok(<<>>)
    ELSE IF Head(items).k # "str" \/ strip(Head(items).s) = <<>>
         THEN SchemaError("string items", key)
         ELSE LET rest == str_items(Tail(items), key)
              IN  IF IsNone(rest.exc) THEN Ok(<<strip(Head(items).s)>> \o rest.v) ELSE rest

_require_str_list(data, key) ==
    LET value == get(data, key)
    IN  IF value.k # "list" \/ value.items = <<>>
        THEN SchemaError("non-empty list", key)
        ELSE str_items(value.items, key)

\* the first exception raised, in the order of execution
RECURSIVE first_exc(_)
first_exc(excs) ==
    IF excs = <<>>
    THEN None
    ELSE IF ~IsNone(Head(excs)) THEN Head(excs) ELSE first_exc(Tail(excs))

\* the exception when there is one, else the entity
raise_or(exc, entity) == IF IsNone(exc) THEN Ok(entity) ELSE [exc |-> exc, v |-> None]

\* the value of a constructor whose arguments are evaluated in this order:
\* the first exception among them, else the entity
construct(results, entity) ==
    raise_or(first_exc([i \in 1..Len(results) |-> results[i].exc]), entity)

\* cls(name=..., version=..., run_mode=...)
new_AgentSpec(name, version, run_mode) ==
    construct(<<name, version, run_mode>>,
              [name |-> name.v, version |-> version.v, run_mode |-> run_mode.v])

\* in the from_dict of an entity that is reached through a list or from a
\* file, data.get raises AttributeError on a value that is no dict
AgentSpec_from_dict(data) ==
    new_AgentSpec(_require_str(data, "name"), _opt_str(data, "version"),
                  _opt_str(data, "run_mode"))

\* cls(retailer=..., url=..., listing_id=..., listing_id_type=...)
new_ListingRef(retailer, url, listing_id, listing_id_type) ==
    construct(<<retailer, url, listing_id, listing_id_type>>,
              [retailer |-> retailer.v, url |-> url.v,
               listing_id |-> listing_id.v, listing_id_type |-> listing_id_type.v])

ListingRef_from_dict(data) ==
    IF data.k # "dict"
    THEN Raise("AttributeError")
    ELSE new_ListingRef(_require_str(data, "retailer"), _require_str(data, "url"),
                        _opt_str(data, "listing_id"), _opt_str(data, "listing_id_type"))

\* cls(allow_third_party=..., allow_refurbished=..., require_full_set=...)
new_TaskRules(allow_third_party, allow_refurbished, require_full_set) ==
    construct(<<allow_third_party, allow_refurbished, require_full_set>>,
              [allow_third_party |-> allow_third_party.v,
               allow_refurbished |-> allow_refurbished.v,
               require_full_set |-> require_full_set.v])

TaskRules_from_dict(data) ==
    new_TaskRules(_require_bool(data, "allow_third_party"),
                  _require_bool(data, "allow_refurbished"),
                  _require_bool(data, "require_full_set"))

\* a list comprehension of from_dict calls, from its first item and the
\* rest: the first item that raises ends it
cons_results(first, rest) ==
    IF ~IsNone(first.exc)
    THEN first
    ELSE IF ~IsNone(rest.exc) THEN rest ELSE Ok(<<first.v>> \o rest.v)

\* [ListingRef.from_dict(item) for item in items]
RECURSIVE listing_refs(_)
listing_refs(items) ==
    IF items = <<>>
    THEN Ok(<<>>)
    ELSE cons_results(ListingRef_from_dict(Head(items)), listing_refs(Tail(items)))

\* TaskRules.from_dict(_require_dict(data, "rules"))
rules_of(rules_dict) ==
    IF IsNone(rules_dict.exc) THEN TaskRules_from_dict(rules_dict.v) ELSE rules_dict

\* the comprehension over _opt_list(data, "canonical_listings")
canonical_listings_of(listing_items) ==
    IF IsNone(listing_items.exc) THEN listing_refs(listing_items.v) ELSE listing_items

\* cls(product_name=..., ..., canonical_listings=...)
new_TaskSpec(product_name, product_variant, budget_usd, currency, allowed_retailers, rules, canonical_listings) ==
    construct(<<product_name, product_variant, budget_usd, currency, allowed_retailers,
                rules, canonical_listings>>,
              [product_name |-> product_name.v,
               product_variant |-> product_variant.v,
               budget_usd |-> budget_usd.v,
               currency |-> currency.v,
               allowed_retailers |-> allowed_retailers.v,
               rules |-> rules.v,
               canonical_listings |-> canonical_listings.v])

TaskSpec_from_dict(data) ==
    new_TaskSpec(_require_str(data, "product_name"),
                 _opt_str(data, "product_variant"),
                 _opt_float(data, "budget_usd"),
                 _require_str(data, "currency"),
                 _require_str_list(data, "allowed_retailers"),
                 rules_of(_require_dict(data, "rules")),
                 canonical_listings_of(_opt_list(data, "canonical_listings")))

\* _parse_iso8601 of a required string: the string as it was given, or the
\* exception of the check
checked_timestamp(value) ==
    IF ~IsNone(value.exc)
    THEN value
    ELSE raise_or(_parse_iso8601(value.v).exc, value.v)

\* _require_str(data, key), then _parse_iso8601 of it
timestamp_of(data, key) == checked_timestamp(_require_str(data, key))

\* cls(raw_text=..., captured_at=..., source=...)
new_AgentOutput(raw_text, captured_at, source) ==
    construct(<<raw_text, captured_at, source>>,
              [raw_text |-> raw_text.v, captured_at |-> captured_at.v,
               source |-> source.v])

AgentOutput_from_dict(data) ==
    new_AgentOutput(_require_str(data, "raw_text"), timestamp_of(data, "captured_at"),
                    _opt_str(data, "source"))

\* cls(retailer=..., ..., notes=...), its arguments in the order they are
\* evaluated in: the timestamp is read before the call
new_EvidenceItem(timestamp, retailer, url, price_usd, availability, seller, variant_match, listing_id, listing_id_type, notes) ==
    construct(<<timestamp, retailer, url, price_usd, availability, seller,
                variant_match, listing_id, listing_id_type, notes>>,
              [retailer |-> retailer.v,
               url |-> url.v,
               price_usd |-> price_usd.v,
               availability |-> availability.v,
               seller |-> seller.v,
               timestamp |-> timestamp.v,
               variant_match |-> variant_match.v,
               listing_id |-> listing_id.v,
               listing_id_type |-> listing_id_type.v,
               notes |-> notes.v])

EvidenceItem_from_dict(data) ==
    IF data.k # "dict"
    THEN Raise("AttributeError")
    ELSE new_EvidenceItem(timestamp_of(data, "timestamp"),
                          _require_str(data, "retailer"),
                          _require_str(data, "url"),
                          _opt_float(data, "price_usd"),
                          _opt_str(data, "availability"),
                          _opt_str(data, "seller"),
                          _opt_bool(data, "variant_match"),
                          _opt_str(data, "listing_id"),
                          _opt_str(data, "listing_id_type"),
                          _opt_str(data, "notes"))

\* [EvidenceItem.from_dict(item) for item in items]
RECURSIVE evidence_items_of(_)
evidence_items_of(items) ==
    IF items = <<>>
    THEN Ok(<<>>)
    ELSE cons_results(EvidenceItem_from_dict(Head(items)), evidence_items_of(Tail(items)))

\* AgentSpec.from_dict(_require_dict(data, "agent"))
agent_of(agent_dict) ==
    IF IsNone(agent_dict.exc) THEN AgentSpec_from_dict(agent_dict.v) ELSE agent_dict

\* TaskSpec.from_dict(_require_dict(data, "task"))
task_of(task_dict) ==
    IF IsNone(task_dict.exc) THEN TaskSpec_from_dict(task_dict.v) ELSE task_dict

\* AgentOutput.from_dict(_require_dict(data, "agent_output"))
agent_output_of(output_dict) ==
    IF IsNone(output_dict.exc) THEN AgentOutput_from_dict(output_dict.v) ELSE output_dict

\* the comprehension over _require_list(data, "evidence")
evidence_of(evidence_items) ==
    IF IsNone(evidence_items.exc) THEN evidence_items_of(evidence_items.v) ELSE evidence_items

\* cls(version=..., ..., notes=...)
new_CaseStudy(version, id, title, created_at, agent, task, agent_output, evidence, notes) ==
    construct(<<version, id, title, created_at, agent, task, agent_output,
                evidence, notes>>,
              [version |-> version.v,
               id |-> id.v,
               title |-> title.v,
               created_at |-> created_at.v,
               agent |-> agent.v,
               task |-> task.v,
               agent_output |-> agent_output.v,
               evidence |-> evidence.v,
               notes |-> notes.v])

CaseStudy_from_dict(data) ==
    IF data.k # "dict"
    THEN Raise("AttributeError")
    ELSE new_CaseStudy(_require_str(data, "version"),
                       _require_str(data, "id"),
                       _require_str(data, "title"),
                       timestamp_of(data, "created_at"),
                       agent_of(_require_dict(data, "agent")),
                       task_of(_require_dict(data, "task")),
                       agent_output_of(_require_dict(data, "agent_output")),
                       evidence_of(_require_list(data, "evidence")),
                       _opt_str(data, "notes"))

----------------------------------------------------------------------------
(* core/loader.py: a directory is None when it does not exist, else a       *)
(* function from the paths in it to its entries.  A path is the rank of its *)
(* name in the order of Path.  An entry is matched by *.json or it is not,  *)
(* and its text is malformed or holds a document.                           *)

\* json.loads(text)
json_loads(text) == IF text.malformed THEN Raise("JSONDecodeError") ELSE Ok(text.doc)

\* raise CaseStudyLoadError(f"{what} in {path}: {exc}") from exc
CaseStudyLoadError(what, path, cause) ==
    [exc |-> Some([type |-> "CaseStudyLoadError", what |-> what, path |-> path,
                   cause |-> cause]),
     v |-> None]

RECURSIVE sorted(_)
sorted(paths) ==
    IF paths = {}
    THEN <<>>
    ELSE LET least == CHOOSE p \in paths : \A q \in paths : p <= q
         IN  <<least>> \o sorted(paths \ {least})

iter_case_study_files(fixtures_dir) ==
    IF IsNone(fixtures_dir)
    THEN <<>>
    ELSE sorted({p \in DOMAIN Val(fixtures_dir) : Val(fixtures_dir)[p].json_file})

\* except SchemaError as exc: any other exception passes through
load_case_study(path, case_study) ==
    IF ~IsNone(case_study.exc) /\ Val(case_study.exc).type = "SchemaError"
    THEN CaseStudyLoadError("Schema error", path, "SchemaError")
    ELSE case_study

\* except json.JSONDecodeError as exc, else CaseStudy.from_dict(data)
load_data(path, data) ==
    IF ~IsNone(data.exc)
    THEN CaseStudyLoadError("Invalid JSON", path, "JSONDecodeError")
    ELSE load_case_study(path, CaseStudy_from_dict(data.v))

\* the body of the loop of load_case_studies for one path: the case study,
\* or the exception that leaves the loop
load_path(fixtures_dir, path) ==
    load_data(path, json_loads(Val(fixtures_dir)[path].text))
----------------------------------------------------------------------------
(* core/schema.py: the entities the evaluator reads *)

Timestamp0 == <<"2","0","2","4","-","0","1","-","0","1","T","0","0",":","0","0",":","0","0",
    "Z">>

EvidenceItem(retailer, url, price_usd, availability, seller, variant_match, notes) ==
    [retailer |-> retailer,
     url |-> url,
     price_usd |-> price_usd,
     availability |-> availability,
     seller |-> seller,
     timestamp |-> Timestamp0,
     variant_match |-> variant_match,
     listing_id |-> None,
     listing_id_type |-> None,
     notes |-> notes]

TaskRules(allow_third_party, allow_refurbished, require_full_set) ==
    [allow_third_party |-> allow_third_party,
     allow_refurbished |-> allow_refurbished,
     require_full_set |-> require_full_set]

\* the part of a CaseStudy evaluate_case_study reads
CaseStudy(budget_usd, rules, raw_text, evidence) ==
    [task |-> [budget_usd |-> budget_usd, rules |-> rules],
     agent_output |-> [raw_text |-> raw_text],
     evidence |-> evidence]

----------------------------------------------------------------------------
(* core/evaluator.py *)

\* the seller text each retailer's own listings carry
expected_seller(retailer) ==
    IF retailer = <<"a","m","a","z","o","n">>
    THEN Some(<<"a","m","a","z","o","n",".","c","o","m">>)
    ELSE IF retailer = <<"b","e","s","t"," ","b","u","y">>
         THEN Some(<<"b","e","s","t"," ","b","u","y">>)
         ELSE IF retailer = <<"a","p","p","l","e">> THEN Some(<<"a","p","p","l","e">>) ELSE None

\* _is_first_party without .lower() on the retailer
_is_first_party_exact_case(item) ==
    IF IsNone(item.seller)
    THEN FALSE
    ELSE LET seller == lower(strip(Val(item.seller)))
             expected == expected_seller(strip(item.retailer))
         IN  IF IsNone(expected) THEN FALSE ELSE contains(seller, Val(expected))

_is_first_party(item) ==
    IF IsNone(item.seller)
    THEN FALSE
    ELSE LET seller == lower(strip(Val(item.seller)))
             retailer == lower(strip(item.retailer))
             expected == expected_seller(retailer)
         IN  IF IsNone(expected) THEN FALSE ELSE contains(seller, Val(expected))

RefurbishedTokens == {<<"r","e","f","u","r","b">>, <<"r","e","n","e","w","e","d">>, <<"o",
    "p","e","n","-","b","o","x">>, <<"u","s","e","d">>}

\* [part.lower() for part in parts if part]
RECURSIVE lowered_parts(_)
lowered_parts(parts) ==
    IF parts = <<>>
    THEN <<>>
    ELSE (IF ~IsNone(Head(parts)) /\ Val(Head(parts)) # <<>>
          THEN <<lower(Val(Head(parts)))>>
          ELSE <<>>) \o lowered_parts(Tail(parts))

_looks_refurbished(item) ==
    LET haystack == join_space(lowered_parts(<<item.availability, item.notes, item.seller>>))
    IN  \E token \in RefurbishedTokens : contains(haystack, token)

\* _qualifies with "variant_match is False" for "variant_match is not True"
_qualifies_unknown_variant_passes(item, rules) ==
    IF IsNone(item.price_usd)
    THEN FALSE
    ELSE IF rules.require_full_set /\ item.variant_match = Some(FALSE)
         THEN FALSE
         ELSE IF ~rules.allow_refurbished /\ _looks_refurbished(item)
              THEN FALSE
              ELSE IF ~rules.allow_third_party /\ ~_is_first_party(item)
                   THEN FALSE
                   ELSE TRUE

_qualifies(item, rules) ==
    IF IsNone(item.price_usd)
    THEN FALSE
    ELSE IF rules.require_full_set /\ item.variant_match # Some(TRUE)
         THEN FALSE
         ELSE IF ~rules.allow_refurbished /\ _looks_refurbished(item)
              THEN FALSE
              ELSE IF ~rules.allow_third_party /\ ~_is_first_party(item)
                   THEN FALSE
                   ELSE TRUE

\* abs(left - right) < 0.01.  Two prices exactly one cent apart compare equal
\* or unequal as the floating-point difference falls below 0.01 or not
\* (0.06 - 0.05 < 0.01 <= 0.02 - 0.01): cent_equal is that outcome.
_prices_equal(left, right, cent_equal) ==
    IF IsNone(left) \/ IsNone(right)
    THEN FALSE
    ELSE LET d == Val(left) - Val(right)
             abs == IF d < 0 THEN -d ELSE d
         IN  abs < 10 \/ (abs = 10 /\ cent_equal)

\* round(delta, 2) for delta > 0.  A delta that ends on half a cent has no
\* exact floating-point value and rounds up or down as its nearest double
\* lies above or below the half (round(0.015 - 0.01, 2) = 0.01,
\* round(1.005 - 1.0, 2) = 0.0): half_up is that outcome.
py_round2(delta, half_up) ==
    LET q == delta \div 10
        r == delta % 10
    IN  IF r < 5 \/ (r = 5 /\ ~half_up) THEN 10 * q ELSE 10 * (q + 1)

\* the key of min(): item.price_usd or float("inf"); None stands for infinity
price_key(item) ==
    IF IsNone(item.price_usd) \/ Val(item.price_usd) = 0 THEN None ELSE item.price_usd

\* a < b on keys
key_less(a, b) == ~IsNone(a) /\ (IsNone(b) \/ Val(a) < Val(b))

\* the loop of min(): a later item replaces the best so far only with a
\* strictly smaller key
RECURSIVE min_from(_, _)
min_from(best, rest) ==
    IF rest = <<>>
    THEN best
    ELSE min_from(IF key_less(price_key(Head(rest)), price_key(best)) THEN Head(rest) ELSE best,
                  Tail(rest))

\* min(items, key=...): raises ValueError on an empty list
py_min(items) ==
    IF items = <<>>
    THEN [exc |-> Some("ValueError"), v |-> None]
    ELSE [exc |-> None, v |-> Some(min_from(Head(items), Tail(items)))]

\* a <= b on Optional[float]: raises TypeError when either is None
py_le(a, b) ==
    IF IsNone(a) \/ IsNone(b)
    THEN [exc |-> Some("TypeError"), v |-> None]
    ELSE [exc |-> None, v |-> Some(Val(a) <= Val(b))]

\* a - b on Optional[float]: raises TypeError when either is None
py_sub(a, b) ==
    IF IsNone(a) \/ IsNone(b)
    THEN [exc |-> Some("TypeError"), v |-> 0]
    ELSE [exc |-> None, v |-> Val(a) - Val(b)]

\* _match_offer_to_evidence that takes the first item of the offer's retailer
\* even when several carry it
_match_offer_first_of_retailer(offer, evidence) ==
    IF IsNone(offer)
    THEN None
    ELSE LET o == Val(offer)
             by_url(i) == evidence[i].url = Val(o.url)
             matches == SelectSeq(evidence, LAMBDA item : item.retailer = o.retailer)
         IN  IF ~IsNone(o.url) /\ Val(o.url) # <<>> /\ \E i \in 1..Len(evidence) : by_url(i)
             THEN Some(evidence[CHOOSE i \in 1..Len(evidence) :
                           by_url(i) /\ \A k \in 1..(i - 1) : ~by_url(k)])
             ELSE IF o.retailer # <<>> /\ Len(matches) >= 1
                  THEN Some(matches[1])
                  ELSE None

\* _match_offer_to_evidence with the retailer tried before the URL
_match_offer_retailer_first(offer, evidence) ==
    IF IsNone(offer)
    THEN None
    ELSE LET o == Val(offer)
             by_url(i) == evidence[i].url = Val(o.url)
             matches == SelectSeq(evidence, LAMBDA item : item.retailer = o.retailer)
         IN  IF o.retailer # <<>> /\ Len(matches) = 1
             THEN Some(matches[1])
             ELSE IF ~IsNone(o.url) /\ Val(o.url) # <<>> /\ \E i \in 1..Len(evidence) : by_url(i)
                  THEN Some(evidence[CHOOSE i \in 1..Len(evidence) :
                                by_url(i) /\ \A k \in 1..(i - 1) : ~by_url(k)])
                  ELSE None

_match_offer_to_evidence(offer, evidence) ==
    IF IsNone(offer)
    THEN None
    ELSE LET o == Val(offer)
             by_url(i) == evidence[i].url = Val(o.url)
             matches == SelectSeq(evidence, LAMBDA item : item.retailer = o.retailer)
         IN  IF ~IsNone(o.url) /\ Val(o.url) # <<>> /\ \E i \in 1..Len(evidence) : by_url(i)
             THEN Some(evidence[CHOOSE i \in 1..Len(evidence) :
                           by_url(i) /\ \A k \in 1..(i - 1) : ~by_url(k)])
             ELSE IF o.retailer # <<>> /\ Len(matches) = 1
                  THEN Some(matches[1])
                  ELSE None

\* lines 31-33: min() of the list when it is not empty
min_or_none(qualifying_with_price) ==
    IF qualifying_with_price # <<>>
    THEN py_min(qualifying_with_price)
    ELSE [exc |-> None, v |-> None]

\* lines 25-33: the item min() picks among the qualifying items that have a
\* price, None when none qualifies
best_item_of(evidence, rules) ==
    min_or_none(SelectSeq(SelectSeq(evidence, LAMBDA item : _qualifies(item, rules)),
                          LAMBDA item : ~IsNone(item.price_usd)))

\* chosen_evidence and chosen_evidence.price_usd is not None
has_price(chosen_evidence) ==
    ~IsNone(chosen_evidence) /\ ~IsNone(Val(chosen_evidence).price_usd)

\* agent_chosen_price_of that reports 0 when there is no chosen offer
agent_chosen_price_defaulting(chosen_offer, chosen_evidence) ==
    IF has_price(chosen_evidence)
    THEN Val(chosen_evidence).price_usd
    ELSE IF ~IsNone(chosen_offer) THEN Val(chosen_offer).price_usd ELSE Some(0)

\* lines 38-45: the matched evidence's price when it has one, else the parser's
agent_chosen_price_of(chosen_offer, chosen_evidence) ==
    IF has_price(chosen_evidence)
    THEN Val(chosen_evidence).price_usd
    ELSE IF ~IsNone(chosen_offer) THEN Val(chosen_offer).price_usd ELSE None

\* agent_chosen_retailer_of without the override: the parser's retailer stays
agent_chosen_retailer_of_parser(chosen_offer, chosen_evidence) ==
    IF ~IsNone(chosen_offer) THEN Some(Val(chosen_offer).retailer) ELSE None

\* lines 38-45: the retailer that goes with agent_chosen_price_of
agent_chosen_retailer_of(chosen_offer, chosen_evidence) ==
    IF has_price(chosen_evidence)
    THEN Some(Val(chosen_evidence).retailer)
    ELSE IF ~IsNone(chosen_offer) THEN Some(Val(chosen_offer).retailer) ELSE None

\* lines 47-49
agent_choice_qualified_of(chosen_evidence, rules) ==
    IF ~IsNone(chosen_evidence)
    THEN Some(_qualifies(Val(chosen_evidence), rules))
    ELSE None

\* found_best_of without the test for a disqualified choice
found_best_ignoring_disqualification(best_item, agent_chosen_price, agent_chosen_retailer, agent_choice_qualified, cent_equal) ==
    IF ~IsNone(best_item) /\ ~IsNone(agent_chosen_price)
    THEN LET same_price == _prices_equal(agent_chosen_price,
                                         Val(best_item).price_usd, cent_equal)
         IN  IF /\ ~IsNone(agent_chosen_retailer)
                /\ Val(agent_chosen_retailer) # <<>>
                /\ Val(best_item).retailer # <<>>
             THEN Some(same_price /\ Val(agent_chosen_retailer) = Val(best_item).retailer)
             ELSE Some(same_price)
    ELSE None

\* lines 51-58
found_best_of(best_item, agent_chosen_price, agent_chosen_retailer, agent_choice_qualified, cent_equal) ==
    IF ~IsNone(best_item) /\ ~IsNone(agent_chosen_price)
    THEN IF agent_choice_qualified = Some(FALSE)
         THEN Some(FALSE)
         ELSE LET same_price == _prices_equal(agent_chosen_price,
                                              Val(best_item).price_usd, cent_equal)
              IN  IF /\ ~IsNone(agent_chosen_retailer)
                     /\ Val(agent_chosen_retailer) # <<>>
                     /\ Val(best_item).retailer # <<>>
                  THEN Some(same_price
                            /\ Val(agent_chosen_retailer) = Val(best_item).retailer)
                  ELSE Some(same_price)
    ELSE None

\* within_budget_of with < for <=
within_budget_strict(budget_usd, agent_chosen_price) ==
    IF ~IsNone(budget_usd) /\ ~IsNone(agent_chosen_price)
    THEN [exc |-> None, v |-> Some(Val(agent_chosen_price) < Val(budget_usd))]
    ELSE [exc |-> None, v |-> None]

\* lines 60-62
within_budget_of(budget_usd, agent_chosen_price) ==
    IF ~IsNone(budget_usd) /\ ~IsNone(agent_chosen_price)
    THEN py_le(agent_chosen_price, budget_usd)
    ELSE [exc |-> None, v |-> None]

\* lines 64-72
money_left_of(best_item, agent_chosen_price, agent_choice_qualified, half_up) ==
    IF /\ ~IsNone(best_item)
       /\ ~IsNone(Val(best_item).price_usd)
       /\ ~IsNone(agent_chosen_price)
       /\ agent_choice_qualified # Some(FALSE)
    THEN LET delta == py_sub(agent_chosen_price, Val(best_item).price_usd)
         IN  [exc |-> delta.exc,
              v |-> Some(IF delta.v > 0 THEN py_round2(delta.v, half_up) ELSE 0)]
    ELSE [exc |-> None, v |-> None]

\* the value of the call: the EvaluationResult, or the first exception raised
EvaluationResult(parsed_exc, best, agent_chosen_price, agent_chosen_retailer, agent_choice_qualified, found_best, within_budget, money_left) ==
    [best_first_party_price_usd |-> IF ~IsNone(best.v) THEN Val(best.v).price_usd ELSE None,
     best_first_party_retailer |->
         IF ~IsNone(best.v) THEN Some(Val(best.v).retailer) ELSE None,
     agent_chosen_price_usd |-> agent_chosen_price,
     agent_chosen_retailer |-> agent_chosen_retailer,
     agent_choice_qualified |-> agent_choice_qualified,
     found_best_first_party_price |-> found_best,
     within_budget |-> within_budget.v,
     money_left_on_table_usd |-> money_left.v,
     exc |-> first_exc(<<parsed_exc, best.exc, within_budget.exc, money_left.exc>>)]

\* lines 51-83, from the chosen price, retailer and qualification
evaluate_chosen(case_study, fp, parsed_exc, best, agent_chosen_price, agent_chosen_retailer, agent_choice_qualified) ==
    EvaluationResult(
        parsed_exc, best, agent_chosen_price, agent_chosen_retailer, agent_choice_qualified,
        found_best_of(best.v, agent_chosen_price, agent_chosen_retailer,
                      agent_choice_qualified, fp.cent_equal),
        within_budget_of(case_study.task.budget_usd, agent_chosen_price),
        money_left_of(best.v, agent_chosen_price, agent_choice_qualified, fp.half_up))

\* lines 38-83, from the chosen offer and the evidence item it matches
evaluate_matched(case_study, fp, parsed_exc, best, chosen_offer, chosen_evidence) ==
    evaluate_chosen(case_study, fp, parsed_exc, best,
                    agent_chosen_price_of(chosen_offer, chosen_evidence),
                    agent_chosen_retailer_of(chosen_offer, chosen_evidence),
                    agent_choice_qualified_of(chosen_evidence, case_study.task.rules))

\* evaluate_parsed that takes the report's own budget answer when it has one
evaluate_parsed_by_answer(case_study, fp, parsed, best) ==
    [evaluate_matched(case_study, fp, parsed.exc, best, parsed.chosen,
                      _match_offer_to_evidence(parsed.chosen, case_study.evidence))
        EXCEPT !.within_budget = or_else(parsed.within_budget, @)]

\* lines 35-83, from the parsed output and the best item
evaluate_parsed(case_study, fp, parsed, best) ==
    evaluate_matched(case_study, fp, parsed.exc, best, parsed.chosen,
                     _match_offer_to_evidence(parsed.chosen, case_study.evidence))

\* fp is how the two floating-point operations come out on their boundaries:
\* see _prices_equal and py_round2
evaluate_case_study(case_study, fp) ==
    evaluate_parsed(case_study, fp,
                    parse_agent_output(Some(case_study.agent_output.raw_text)),
                    best_item_of(case_study.evidence, case_study.task.rules))

----------------------------------------------------------------------------
(* The inputs *)

\* the longest evidence list of a case study
MaxEvidence == 2

UrlA1 == <<"h","t","t","p",":","/","/","a",".","c","o","/","1">>

UrlA2 == <<"h","t","t","p",":","/","/","a",".","c","o","/","2">>

UrlB1 == <<"h","t","t","p",":","/","/","b",".","c","o","/","1">>

UrlB2 == <<"h","t","t","p",":","/","/","b",".","c","o","/","2">>

UrlP1 == <<"h","t","t","p",":","/","/","p",".","c","o","/","1">>

UrlP2 == <<"h","t","t","p",":","/","/","p",".","c","o","/","2">>

\* first-party, new, the full set: qualifies under every rule set
ItemAmazon ==
    EvidenceItem(Amazon, UrlA1, Some(1000), Some(<<"I","n"," ","s","t","o","c",
        "k">>), Some(<<"A","m","a","z","o","n",".","c","o","m">>),
                 Some(TRUE), None)

\* as ItemAmazon, at the same price, from another retailer
ItemBestBuy ==
    EvidenceItem(BestBuy, UrlB1, Some(1000), None, Some(<<"B","e","s","t"," ","B","u",
        "y">>), Some(TRUE), None)

\* a second Amazon listing, priced 0
ItemFree ==
    EvidenceItem(Amazon, UrlA2, Some(0), None, Some(<<"A","m","a","z","o","n",".","c","o",
        "m">>), Some(TRUE), None)

\* a cheaper, used, third-party listing of another variant
ItemUsed ==
    EvidenceItem(BestBuy, UrlB2, Some(994), Some(<<"U","s","e","d"," ","-"," ","g","o","o",
        "d">>), Some(<<"A","c","m","e"," ","O","u","t","l","e","t">>),
                 Some(FALSE), None)

\* a listing whose price is not known
ItemNoPrice ==
    EvidenceItem(Apple, UrlP1, None, None, Some(<<"A","p","p","l","e">>), None, None)

\* a dearer first-party listing, half a cent above ItemAmazon
ItemApple ==
    EvidenceItem(Apple, UrlP2, Some(1005), None, Some(<<"A","p","p","l","e"," ","S","t","o",
        "r","e">>), Some(TRUE),
                 Some(<<"N","e","w">>))

Items == {ItemAmazon, ItemBestBuy, ItemFree, ItemUsed, ItemNoPrice, ItemApple}

EvidenceLists == UNION {[1..n -> Items] : n \in 0..MaxEvidence}

RuleSets ==
    {TaskRules(tp, rf, fs) : tp \in BOOLEAN, rf \in BOOLEAN, fs \in BOOLEAN}

Budgets == {None, Some(1000)}

\* the single-line entry: a retailer, a price and the URL of ItemAmazon
TextChosenAmazon == <<"C","h","o","s","e","n"," ","r","e","t","a","i","l","e","r"," ","+",
    " ","p","r","i","c","e"," ","+"," ","u","r","l",":"," ","A","m","a","z","o","n"," ","$",
    "1",".","0","0"," ","h","t","t","p",":","/","/","a",".","c","o","/","1">>

\* the single-line entry without a URL
TextChosenBestBuy == <<"C","h","o","s","e","n"," ","r","e","t","a","i","l","e","r"," ","+",
    " ","p","r","i","c","e"," ","+"," ","u","r","l",":"," ","B","e","s","t"," ","B","u","y",
    " ","$","1",".","0","0">>

\* the single-line entry with a price alone
TextChosenPrice == <<"C","h","o","s","e","n"," ","r","e","t","a","i","l","e","r"," ","+",
    " ","p","r","i","c","e"," ","+"," ","u","r","l",":"," ","$","1",".","0","0">>

\* the label on a line of its own, then the retailer, then the URL of ItemApple
TextChosenBlock == <<"S","u","m","m","a","r","y","\n","C","H","O","S","E","N"," ","R","E",
    "T","A","I","L","E","R"," ","+"," ","P","R","I","C","E"," ","+"," ","U","R","L","\n",
    "A","p","p","l","e","\n","h","t","t","p",":","/","/","p",".","c","o","/","2">>

\* the label with its colon, the refusal on the next line
TextRefusedColon == <<"C","h","o","s","e","n"," ","r","e","t","a","i","l","e","r"," ","+",
    " ","p","r","i","c","e"," ","+"," ","u","r","l",":","\n","N","o"," ","v","a","l","i",
    "d"," ","c","h","o","i","c","e">>

\* the label without a colon, the refusal on the next line
TextRefused == <<"c","h","o","s","e","n"," ","r","e","t","a","i","l","e","r"," ","+"," ",
    "p","r","i","c","e"," ","+"," ","u","r","l","\n","n","o"," ","v","a","l","i","d"," ",
    "c","h","o","i","c","e">>

\* a price and a URL, but no label and no retailer
TextNothing == <<"N","o","t","h","i","n","g"," ","u","n","d","e","r"," ","$","1",".","0",
    "0"," ","(","h","t","t","p",":","/","/","b",".","c","o","/","2",")">>

\* the single-line entry, tightly spaced, with a price and the URL of ItemUsed
TextChosenUrl == <<"c","h","o","s","e","n"," ","r","e","t","a","i","l","e","r","+","p","r",
    "i","c","e","+","u","r","l"," ",":"," ","$","1",".","0","0"," ","(","h","t","t","p",":",
    "/","/","b",".","c","o","/","2",")">>

\* an offer block and no chosen entry
TextOffer == <<"A","m","a","z","o","n","\n","P","r","i","c","e",":"," ","$","1",".","0","0",
    "\n","S","e","l","l","e","r",":"," ","A","m","a","z","o","n",".","c","o","m">>

\* the single-line entry with a price one cent up and a URL no evidence has
TextChosenElsewhere == <<"C","h","o","s","e","n"," ","r","e","t","a","i","l","e","r"," ",
    "+"," ","p","r","i","c","e"," ","+"," ","u","r","l",":"," ","B","e","s","t"," ","B","u",
    "y"," ","$","1",".","0","1"," ","h","t","t","p",":","/","/","x",".","c","o","/","9">>

AgentTexts ==
    {TextChosenAmazon, TextChosenBestBuy, TextChosenPrice, TextChosenBlock,
     TextRefusedColon, TextRefused, TextNothing, TextChosenUrl, TextOffer,
     TextChosenElsewhere}

CaseStudies ==
    {CaseStudy(b, r, t, ev) :
        b \in Budgets, r \in RuleSets, t \in AgentTexts, ev \in EvidenceLists}

\* the label alone
ChosenLabelOnly == <<"C","h","o","s","e","n"," ","r","e","t","a","i","l","e","r"," ","+",
    " ","p","r","i","c","e"," ","+"," ","u","r","l">>

\* what parse_agent_output is called on directly: no text, empty and blank
\* texts, a label that ends the text, a lone currency sign, the two forms
\* of the budget answer, and the reports
ParserInputs ==
    {None, Some(<<>>), Some(<<" ","\n","\t">>),
     Some(<<"C","h","o","s","e","n"," ","r","e","t","a","i","l","e","r"," ","+"," ","p","r",
         "i","c","e"," ","+"," ","u","r","l",":"," "," ">>),
     Some(ChosenLabelOnly),
     Some(<<"P","r","i","c","e",":"," ","$"," ","a","n","d"," ","$","1",".","5">>),
     Some(<<"W","i","t","h","i","n"," ","b","u","d","g","e","t"," ","(","$","2","0","0"," ",
         "h","a","r","d"," ","c","a","p",")","?"," ","N","o">>),
     Some(<<"W","i","t","h","i","n"," ","b","u","d","g","e","t","\n","y","e","s">>)}
    \cup {Some(t) : t \in AgentTexts}

\* how the floating-point operations come out on their boundaries
FloatOutcomes == [cent_equal : BOOLEAN, half_up : BOOLEAN]

----------------------------------------------------------------------------
(* The calls *)

VARIABLES
    call,       \* the call in progress: the function and its argument
    locals,     \* the local variables of a call that runs a loop, else None
    returned,   \* None until the call returns, then its value
    objects,    \* the CaseStudy objects a caller holds, by name
    arithmetic, \* how the float operations come out, the same at every call
    results     \* the calls a caller has made on its objects, in order

\* what a caller that makes call after call keeps
session == <<objects, arithmetic, results>>

vars == <<call, locals, returned, objects, arithmetic, results>>

\* a single call: no caller's objects are modelled
NoSession == objects = <<>> /\ arithmetic = <<>> /\ results = <<>>

InitEvaluate ==
    /\ call \in {[fn |-> "evaluate_case_study", arg |-> cs] : cs \in CaseStudies}
    /\ locals = None
    /\ returned = None
    /\ NoSession

InitParse ==
    /\ call \in {[fn |-> "parse_agent_output", arg |-> t] : t \in ParserInputs}
    /\ locals = None
    /\ returned = None
    /\ NoSession

Init == InitEvaluate \/ InitParse

Evaluate ==
    /\ call.fn = "evaluate_case_study"
    /\ IsNone(returned)
    /\ \E fp \in FloatOutcomes : returned' = Some(evaluate_case_study(call.arg, fp))
    /\ UNCHANGED <<call, locals, session>>

Parse ==
    /\ call.fn = "parse_agent_output"
    /\ IsNone(returned)
    /\ returned' = Some(parse_agent_output(call.arg))
    /\ UNCHANGED <<call, locals, session>>

Next == Evaluate \/ Parse

Spec == Init /\ [][Next]_vars

----------------------------------------------------------------------------
(* The directories load_case_studies is called on *)

\* the most entries of a directory
MaxFiles == 3

\* the document with value under key
with_field(doc, key, value) ==
    JObj([k \in DOMAIN doc.f \cup {key} |-> IF k = key THEN value ELSE doc.f[k]])

\* the document without key
without_field(doc, key) == JObj([k \in DOMAIN doc.f \ {key} |-> doc.f[k]])

EvidenceDoc ==
    JObj([timestamp |-> JStr(Timestamp0),
          retailer |-> JStr(Amazon),
          url |-> JStr(UrlA1),
          price_usd |-> JFloat(1000),
          seller |-> JStr(<<"A","m","a","z","o","n",".","c","o","m">>),
          variant_match |-> JBool(TRUE)])

\* a document that meets the schema
DocValid ==
    JObj([version |-> JStr(<<"1">>),
          id |-> JStr(<<"a">>),
          title |-> JStr(<<" ","A"," ">>),
          created_at |-> JStr(<<"2","0","2","4","-","0","2","-","2","9">>),
          agent |-> JObj([name |-> JStr(<<"a","g","e","n","t">>)]),
          task |-> JObj([product_name |-> JStr(<<"p","o","d","s">>),
                         budget_usd |-> JInt(1),
                         currency |-> JStr(<<"U","S","D">>),
                         allowed_retailers |-> JList(<<JStr(Amazon)>>),
                         rules |-> JObj([allow_third_party |-> JBool(FALSE),
                                         allow_refurbished |-> JBool(FALSE),
                                         require_full_set |-> JBool(TRUE)])]),
          agent_output |-> JObj([raw_text |-> JStr(TextChosenAmazon),
                                 captured_at |-> JStr(<<"2","0","2","4","-","0","1","-","0",
                                     "1"," ","0","9",":","3","0",":","0","0","-","0","5",
                                     ":","0","0">>)]),
          evidence |-> JList(<<EvidenceDoc>>)])

\* a second document that meets the schema
DocValidB == with_field(DocValid, "id", JStr(<<"b">>))

\* the title is missing
DocNoTitle == without_field(DocValid, "title")

\* created_at is no ISO-8601 text
DocBadTimestamp == with_field(DocValid, "created_at", JStr(<<"2","0","2","3","-","0","2",
    "-","2","9">>))

\* the document is a list, not an object
DocList == JList(<<DocValid>>)

\* an evidence entry is a string, not an object
DocEvidenceString == with_field(DocValid, "evidence", JList(<<EvidenceDoc, JStr(Amazon)>>))

Documents ==
    {DocValid, DocValidB, DocNoTitle, DocBadTimestamp, DocList, DocEvidenceString}

\* an entry the glob matches, holding a document
JsonFile(doc) == [json_file |-> TRUE, text |-> [malformed |-> FALSE, doc |-> doc]]

\* an entry the glob matches whose text is no JSON
MalformedFile == [json_file |-> TRUE, text |-> [malformed |-> TRUE]]

\* an entry the glob does not match
OtherFile == [json_file |-> FALSE, text |-> [malformed |-> TRUE]]

Files == {JsonFile(doc) : doc \in Documents} \cup {MalformedFile, OtherFile}

Directories ==
    {None} \cup {Some(d) : d \in UNION {[paths -> Files] : paths \in SUBSET (1..MaxFiles)}}

InitLoader ==
    /\ call \in {[fn |-> "load_case_studies", arg |-> d] : d \in Directories}
    /\ locals = Some([paths |-> iter_case_study_files(call.arg), case_studies |-> <<>>])
    /\ returned = None
    /\ NoSession

\* the end of one pass: case_studies.append(...), or the exception leaves
\* the call
LoadStep(loaded) ==
    IF IsNone(loaded.exc)
    THEN /\ locals' = Some([paths |-> Tail(Val(locals).paths),
                            case_studies |-> Append(Val(locals).case_studies, loaded.v)])
         /\ UNCHANGED returned
    ELSE /\ returned' = Some(loaded)
         /\ UNCHANGED locals

\* one pass of the loop: the next path's case study is appended, or the
\* exception its file raises ends the call
LoadPath ==
    /\ call.fn = "load_case_studies"
    /\ IsNone(returned)
    /\ Val(locals).paths # <<>>
    /\ LoadStep(load_path(call.arg, Head(Val(locals).paths)))
    /\ UNCHANGED <<call, session>>

\* return case_studies
LoadReturn ==
    /\ call.fn = "load_case_studies"
    /\ IsNone(returned)
    /\ Val(locals).paths = <<>>
    /\ returned' = Some(Ok(Val(locals).case_studies))
    /\ UNCHANGED <<call, locals, session>>

NextLoader == LoadPath \/ LoadReturn

SpecLoader == InitLoader /\ [][NextLoader]_vars

----------------------------------------------------------------------------
(* The documents CaseStudy.from_dict is called on: a document that has every *)
(* field, and that document with one field, or two, replaced or removed.    *)
(* A path is the keys from the document down to a field; "item" is the      *)
(* first entry of a list.                                                   *)

ListingDoc ==
    JObj([retailer |-> JStr(Amazon),
          url |-> JStr(UrlA1),
          listing_id |-> JStr(<<"B","0","1">>),
          listing_id_type |-> JStr(<<"a","s","i","n">>)])

EvidenceFull ==
    JObj([timestamp |-> JStr(<<"2","0","2","4","-","0","1","-","0","1","T","0","9",":","3",
        "0",":","0","0">>),
          retailer |-> JStr(Amazon),
          url |-> JStr(UrlA1),
          price_usd |-> JFloat(1000),
          availability |-> JStr(<<"I","n"," ","s","t","o","c","k">>),
          seller |-> JStr(<<"A","m","a","z","o","n",".","c","o","m">>),
          variant_match |-> JBool(TRUE),
          listing_id |-> JStr(<<"B","0","1">>),
          listing_id_type |-> JStr(<<"a","s","i","n">>),
          notes |-> JStr(<<"n">>)])

\* a document that meets the schema and has every optional field
DocFull ==
    JObj([version |-> JStr(<<"1">>),
          id |-> JStr(<<"a">>),
          title |-> JStr(<<"A">>),
          created_at |-> JStr(<<"2","0","2","4","-","0","2","-","2","9">>),
          notes |-> JStr(<<"n">>),
          agent |-> JObj([name |-> JStr(<<"a","g","e","n","t">>),
                          version |-> JStr(<<"2">>),
                          run_mode |-> JStr(<<"l","i","v","e">>)]),
          task |-> JObj([product_name |-> JStr(<<"p","o","d","s">>),
                         product_variant |-> JStr(<<"w","h","i","t","e">>),
                         budget_usd |-> JInt(1),
                         currency |-> JStr(<<"U","S","D">>),
                         allowed_retailers |-> JList(<<JStr(Amazon)>>),
                         rules |-> JObj([allow_third_party |-> JBool(FALSE),
                                         allow_refurbished |-> JBool(FALSE),
                                         require_full_set |-> JBool(TRUE)]),
                         canonical_listings |-> JList(<<ListingDoc>>)]),
          agent_output |-> JObj([raw_text |-> JStr(<<"A","m","a","z","o","n"," ","$","1",
              ".","0","0">>),
                                 captured_at |-> JStr(<<"2","0","2","4","-","0","1","-","0",
                                     "1"," ","0","9",":","3","0",":","0","0","-","0","5",
                                     ":","0","0">>),
                                 source |-> JStr(<<"u","i">>)]),
          evidence |-> JList(<<EvidenceFull>>)])

\* stands for no value: the key is not in the object
Absent == [k |-> "absent"]

\* the document with the value at the path, or without the field there
RECURSIVE put(_, _, _)
put(doc, path, value) ==
    IF path = <<>>
    THEN value
    ELSE IF Head(path) = "item"
         THEN JList(<<put(Head(doc.items), Tail(path), value)>> \o Tail(doc.items))
         ELSE IF Len(path) = 1 /\ value = Absent
              THEN without_field(doc, Head(path))
              ELSE with_field(doc, Head(path), put(doc.f[Head(path)], Tail(path), value))

\* the fields that hold a required string, but for the timestamps
StringPaths ==
    {<<"version">>, <<"id">>, <<"title">>, <<"agent", "name">>,
     <<"task", "product_name">>, <<"task", "currency">>,
     <<"agent_output", "raw_text">>,
     <<"evidence", "item", "retailer">>, <<"evidence", "item", "url">>}

TimestampPaths ==
    {<<"created_at">>, <<"agent_output", "captured_at">>, <<"evidence", "item", "timestamp">>}

\* the fields that hold a required object
ObjectPaths == {<<"agent">>, <<"task">>, <<"agent_output">>, <<"task", "rules">>}

\* the three rules: required booleans
RulePaths ==
    {<<"task", "rules", "allow_third_party">>, <<"task", "rules", "allow_refurbished">>,
     <<"task", "rules", "require_full_set">>}

\* the fields the claims name as required
RequiredPaths ==
    StringPaths \cup TimestampPaths \cup ObjectPaths \cup RulePaths
        \cup {<<"task", "allowed_retailers">>, <<"evidence">>}

\* the optional boolean
VariantMatchPath == <<"evidence", "item", "variant_match">>

BooleanPaths == RulePaths \cup {VariantMatchPath}

\* the optional numbers
NumberPaths == {<<"task", "budget_usd">>, <<"evidence", "item", "price_usd">>}

\* the optional list
CanonicalListingsPath == <<"task", "canonical_listings">>

\* the other optional fields
OptionalStringPaths ==
    {<<"notes">>, <<"agent", "version">>, <<"task", "product_variant">>,
     <<"agent_output", "source">>, <<"evidence", "item", "seller">>,
     <<"evidence", "item", "notes">>, <<"task", "canonical_listings", "item", "url">>,
     <<"task", "canonical_listings", "item", "listing_id">>}

FieldPaths ==
    RequiredPaths \cup BooleanPaths \cup NumberPaths \cup OptionalStringPaths
        \cup {CanonicalListingsPath}

\* texts that are no ISO-8601 date or time
UnparseableTimestamps == {<<"y","e","s","t","e","r","d","a","y">>, <<"2","0","2","4","-",
    "1","3","-","0","1">>, <<"2","0","2","4","-","0","1","-","0","1","T","2","5",":","0",
    "0",":","0","0">>}

\* ISO-8601 texts with the Z suffix
ZuluTimestamps == {<<"2","0","2","4","-","0","1","-","0","1","T","0","9",":","3","0",":",
    "0","0","Z">>, <<"2","0","2","4","-","0","1","-","0","1"," ","0","9",":","3","0","Z">>}

\* what takes a field's place: nothing, null, and values of every kind
Replacements ==
    {Absent, JNull, JStr(<<>>), JStr(<<" ">>), JStr(<<"1">>), JStr(<<"1",".","5",
        "0">>), JStr(<<"t","r","u","e">>),
     JBool(TRUE), JBool(FALSE), JInt(0), JInt(1), JInt(-1), JFloat(1500), JFloat(-500),
     JList(<<>>), JList(<<JStr(<<"x">>)>>), JList(<<JInt(1)>>), JObj(<<>>)}
        \cup {JStr(t) : t \in UnparseableTimestamps \cup ZuluTimestamps}

\* an earlier field that is invalid, for the documents with two faults
EarlierFaults ==
    {<<<<"version">>, JInt(1)>>, <<<<"created_at">>, JStr(<<"y","e","s","t","e","r","d","a",
        "y">>)>>}

SchemaDocuments ==
    {DocFull, DocList}
        \cup {put(DocFull, p, v) : p \in FieldPaths, v \in Replacements}
        \cup {put(put(DocFull, e[1], e[2]), p, Absent) :
                 e \in EarlierFaults, p \in RequiredPaths \ {<<"version">>, <<"created_at">>}}

InitSchema ==
    /\ call \in {[fn |-> "CaseStudy.from_dict", arg |-> doc] : doc \in SchemaDocuments}
    /\ locals = None
    /\ returned = None
    /\ NoSession

\* CaseStudy.from_dict(data): the CaseStudy, or the exception raised
FromDict ==
    /\ call.fn = "CaseStudy.from_dict"
    /\ IsNone(returned)
    /\ returned' = Some(CaseStudy_from_dict(call.arg))
    /\ UNCHANGED <<call, locals, session>>

NextSchema == FromDict

SpecSchema == InitSchema /\ [][NextSchema]_vars

----------------------------------------------------------------------------
(* A caller that holds CaseStudy objects and evaluates them, one call after *)
(* another, in any order                                                    *)

\* the most calls a caller makes
MaxCalls == 3

Names == {"first", "second"}

AnyRules == TaskRules(TRUE, TRUE, FALSE)

\* two items tie on the least price, in either order; an item half a cent
\* dearer than the chosen one; a choice matched by URL
HeldCaseStudies ==
    {CaseStudy(Some(1000), AnyRules, TextChosenAmazon, <<ItemAmazon, ItemBestBuy>>),
     CaseStudy(Some(1000), AnyRules, TextChosenBestBuy, <<ItemBestBuy, ItemAmazon>>),
     CaseStudy(None, AnyRules, TextChosenBlock, <<ItemApple, ItemAmazon>>),
     CaseStudy(Some(1000), AnyRules, TextChosenUrl, <<ItemUsed>>)}

InitSession ==
    /\ call = [fn |-> "caller", arg |-> None]
    /\ locals = None
    /\ returned = None
    /\ objects \in [Names -> HeldCaseStudies]
    /\ arithmetic \in FloatOutcomes
    /\ results = <<>>

\* the object a call of evaluate_case_study leaves, were it to reverse the
\* evidence in place
case_study_reversed(case_study) ==
    [case_study EXCEPT
        !.evidence = [i \in 1..Len(@) |-> case_study.evidence[Len(@) + 1 - i]]]

\* the object a call of evaluate_case_study leaves: the function reads
\* raw_text, evidence, rules and budget_usd, builds its lists anew and
\* assigns to nothing of the case study
case_study_after(case_study) == case_study

\* evaluate_case_study(objects[name]), called and returned
EvaluateHeld(name) ==
    /\ call.fn = "caller"
    /\ Len(results) < MaxCalls
    /\ results' = Append(results,
                         [name |-> name,
                          case_study |-> objects[name],
                          result |-> evaluate_case_study(objects[name], arithmetic)])
    /\ objects' = [objects EXCEPT ![name] = case_study_after(@)]
    /\ UNCHANGED <<call, locals, returned, arithmetic>>

NextSession == \E name \in Names : EvaluateHeld(name)

SpecSession == InitSession /\ [][NextSession]_vars

----------------------------------------------------------------------------
(* Reports that carry a chosen-offer entry, put together from their parts:  *)
(* on one line, as a block of lines, and as a block that declines to choose *)

\* the label of the single-line entry, with its colon
EntryLabels ==
    {<<"C","h","o","s","e","n"," ","r","e","t","a","i","l","e","r"," ","+"," ","p","r","i",
        "c","e"," ","+"," ","u","r","l",":">>, <<"C","H","O","S","E","N"," ","R","E","T",
        "A","I","L","E","R","+","P","R","I","C","E","+","U","R","L"," ",":">>,
     <<"-"," ","c","h","o","s","e","n"," ","r","e","t","a","i","l","e","r"," ","+","p","r",
         "i","c","e","+"," ","u","r","l",":">>}

\* how a report names a retailer, and the retailer it names
RetailerMentions ==
    {[text |-> <<"A","m","a","z","o","n">>, retailer |-> Amazon],
     [text |-> <<"B","e","s","t"," ","B","u","y">>, retailer |-> BestBuy],
     [text |-> <<"b","e","s","t","b","u","y",".","c","o","m">>, retailer |-> BestBuy],
     [text |-> <<"t","h","e"," ","A","P","P","L","E"," ","s","t","o","r",
         "e">>, retailer |-> Apple]}

\* how a report gives a price, and the price in thousandths of a dollar
PriceMentions ==
    {[text |-> <<"$","1","4","7",".","0","0">>, mills |-> 147000],
     [text |-> <<"$"," ","5">>, mills |-> 5000],
     [text |-> <<"$","0",".","5","0">>, mills |-> 500]}

UrlMentions == {<<"h","t","t","p",":","/","/","a",".","c","o","/","1">>, <<"h","t","t","p",
    "s",":","/","/","s","h","o","p",".","e","x","a","m","p","l","e","/","x","?","i","d","=",
    "1">>}

\* what comes before the entry: nothing, or the block of an offer
Prefixes == {<<>>, <<"A","m","a","z","o","n","\n","P","r","i","c","e",":"," ","$","9",".",
    "9","9","\n","U","R","L",":"," ","h","t","t","p",":","/","/","z",".","c","o","/","9",
    "\n">>}

\* what comes after the entry: nothing, or the budget answer
Suffixes == {<<>>, <<"\n","W","i","t","h","i","n"," ","b","u","d","g","e","t","?"," ","y",
    "e","s">>}

Entries ==
    [label : EntryLabels, mention : RetailerMentions, price : PriceMentions,
     url : UrlMentions, parens : BOOLEAN, prefix : Prefixes, suffix : Suffixes]
        \cup {[label |-> <<"C","h","o","s","e","n"," ","r","e","t","a","i","l","e","r"," ",
            "+"," ","p","r","i","c","e"," ","+"," ","u","r","l",":">>,
               mention |-> [text |-> <<"B","e","s","t"," ","B","u","y">>, retailer |-> BestBuy],
               price |-> [text |-> <<"$","1","4","7",".","0","0">>, mills |-> 147000],
               url |-> <<"h","t","t","p","s",":","/","/","b","e","s","t","b","u","y",".",
                   "e","x","a","m","p","l","e","/","x">>,
               parens |-> FALSE, prefix |-> <<>>, suffix |-> <<>>]}

\* the report with the entry on one line: the label, then the retailer, the
\* price and the URL, the URL in parentheses or not
EntryText(e) ==
    e.prefix \o e.label \o <<" ">> \o e.mention.text \o <<" ">> \o e.price.text
        \o (IF e.parens THEN <<" ","(">> \o e.url \o <<")">> ELSE <<" ">> \o e.url)
        \o e.suffix

\* the label on a line of its own, in either case, without its colon
BlockLabels == {<<"C","h","o","s","e","n"," ","r","e","t","a","i","l","e","r"," ","+"," ",
    "p","r","i","c","e"," ","+"," ","u","r","l">>, <<"C","H","O","S","E","N"," ","R","E",
    "T","A","I","L","E","R"," ","+"," ","P","R","I","C","E"," ","+"," ","U","R","L">>}

\* nothing, or the colon that may end the label line
Colons == {<<>>, <<":">>}

\* the end of a line, or that and a blank line
LineEnds == {<<"\n">>, <<"\n"," "," ","\n">>}

Blocks ==
    [label : BlockLabels, colon : Colons, mention : RetailerMentions,
     price : PriceMentions, url : UrlMentions, line_end : LineEnds,
     prefix : {<<>>, <<"S","u","m","m","a","r","y","\n">>}]

\* the report with the entry as a block: the label line, the line of the
\* retailer and the price, the line of the URL
BlockText(b) ==
    b.prefix \o b.label \o b.colon \o b.line_end \o b.mention.text \o <<" ">>
        \o b.price.text \o b.line_end \o b.url

\* the lines that decline to choose
RefusalLines == {<<"N","o"," ","v","a","l","i","d"," ","c","h","o","i","c","e">>, <<"N","O",
    " ","V","A","L","I","D"," ","C","H","O","I","C","E",":"," ","a","l","l"," ","e","x","c",
    "e","e","d"," ","t","h","e"," ","b","u","d","g","e","t">>}

\* a line that says nothing of a choice
FillerLine == <<"N","o","t","h","i","n","g"," ","m","e","t"," ","t","h","e"," ","r","u","l",
    "e","s",".">>

\* after is how many lines after the label line the refusal comes: 1 or 2
Refusals ==
    [label : BlockLabels, colon : Colons, refusal : RefusalLines, after : {1, 2},
     line_end : LineEnds, prefix : {<<>>, <<"S","u","m","m","a","r","y","\n">>}]

\* the report whose block declines to choose
RefusalText(r) ==
    r.prefix \o r.label \o r.colon \o r.line_end
        \o (IF r.after = 2 THEN FillerLine \o r.line_end ELSE <<>>)
        \o r.refusal

\* the case study of a report that declines to choose
RefusalCaseStudy(r) == CaseStudy(Some(1000), AnyRules, RefusalText(r), <<ItemAmazon>>)

InitEntries ==
    /\ \/ call \in {[fn |-> "parse_agent_output", arg |-> Some(EntryText(e))] : e \in Entries}
       \/ call \in {[fn |-> "parse_agent_output", arg |-> Some(BlockText(b))] : b \in Blocks}
       \/ call \in {[fn |-> "parse_agent_output", arg |-> Some(RefusalText(r))] :
                       r \in Refusals}
       \/ call \in {[fn |-> "evaluate_case_study", arg |-> RefusalCaseStudy(r)] :
                       r \in Refusals}
    /\ locals = None
    /\ returned = None
    /\ NoSession

SpecEntries == InitEntries /\ [][Next]_vars

----------------------------------------------------------------------------
(* _match_offer_to_evidence on its own: every offer against every evidence  *)
(* list                                                                     *)

\* the retailers a parsed offer carries
OfferRetailers == {Amazon, BestBuy, Apple, Unknown}

\* the URLs a parsed offer carries: none, URLs of evidence items, and one
\* that no evidence item has
OfferUrls == {None, Some(UrlA1), Some(UrlA2), Some(UrlB1), Some(<<"h","t","t","p",":","/",
    "/","x",".","c","o","/","9">>)}

\* None, and the offers as _parse_chosen_offer builds them
ChosenOffers ==
    {None} \cup {Some(ParsedOffer(r, Some(1000), u, None, None, None)) :
                    r \in OfferRetailers, u \in OfferUrls}

InitMatch ==
    /\ call \in {[fn |-> "_match_offer_to_evidence", arg |-> [offer |-> o, evidence |-> ev]] :
                    o \in ChosenOffers, ev \in EvidenceLists}
    /\ locals = None
    /\ returned = None
    /\ NoSession

Match ==
    /\ call.fn = "_match_offer_to_evidence"
    /\ IsNone(returned)
    /\ returned' = Some(_match_offer_to_evidence(call.arg.offer, call.arg.evidence))
    /\ UNCHANGED <<call, locals, session>>

NextMatch == Match

SpecMatch == InitMatch /\ [][NextMatch]_vars

----------------------------------------------------------------------------
(* _is_first_party on its own: retailers in several spellings against       *)
(* seller texts                                                             *)

FirstPartyRetailers ==
    {Amazon, <<"A","M","A","Z","O","N">>, <<"a","m","a","z","o","n">>, <<"A","m","a","z",
        "o","n",".","c","o","m">>, BestBuy, <<"b","e","s","t"," ","b","u","y">>, <<"B","e",
        "s","t","B","u","y">>,
     Apple, <<"A","P","P","L","E">>, <<"W","a","l","m","a","r","t">>}

FirstPartySellers ==
    {None, Some(<<>>), Some(<<"A","m","a","z","o","n",".","c","o","m">>), Some(<<"S","o",
        "l","d"," ","b","y"," ","A","M","A","Z","O","N",".","C","O","M"," ","S","e","r","v",
        "i","c","e","s"," ","L","L","C">>),
     Some(<<"A","m","a","z","o","n">>), Some(<<"B","e","s","t"," ","B","u",
         "y">>), Some(<<"B","E","S","T","B","U","Y">>), Some(<<" ","b","e","s","t"," ","b",
         "u","y"," ">>),
     Some(<<"A","p","p","l","e"," ","S","t","o","r","e">>), Some(<<"P","i","n","e","a","p",
         "p","l","e"," ","R","e","s","a","l","e">>), Some(<<"W","a","l","m","a","r",
         "t">>), Some(<<"A","c","m","e">>)}

FirstPartyItems ==
    {EvidenceItem(r, UrlA1, p, None, s, None, None) :
        r \in FirstPartyRetailers, s \in FirstPartySellers, p \in {None, Some(1000)}}

InitFirstParty ==
    /\ call \in {[fn |-> "_is_first_party", arg |-> it] : it \in FirstPartyItems}
    /\ locals = None
    /\ returned = None
    /\ NoSession

IsFirstParty ==
    /\ call.fn = "_is_first_party"
    /\ IsNone(returned)
    /\ returned' = Some(_is_first_party(call.arg))
    /\ UNCHANGED <<call, locals, session>>

NextFirstParty == IsFirstParty

SpecFirstParty == InitFirstParty /\ [][NextFirstParty]_vars

----------------------------------------------------------------------------
(* parse_agent_output line by line: the loop of lines 49-60 one pass at a   *)
(* time, on reports made of every sequence of a few kinds of line           *)

\* the longest report, in lines
MaxLines == 3

\* a line of a report: its text, the retailer it names, the fields it gives
ReportLine(text, retailer, price_usd, url, availability, seller, variant_match) ==
    [text |-> text, retailer |-> retailer, price_usd |-> price_usd, url |-> url,
     availability |-> availability, seller |-> seller, variant_match |-> variant_match]

LineAmazon == ReportLine(<<"A","m","a","z","o",
    "n">>, Some(Amazon), None, None, None, None, None)

LineBestBuy == ReportLine(<<"B","e","s","t"," ","B","u",
    "y">>, Some(BestBuy), None, None, None, None, None)

\* a line that names a retailer in another case and gives a price and a URL
LineAlsoAmazon ==
    ReportLine(<<"A","l","s","o"," ","a","t"," ","A","M","A","Z","O","N",":"," ","$","3",
        ".","0","0"," ","(","h","t","t","p",":","/","/","x",".","c","o","/","2",
        ")">>, Some(Amazon), Some(3000),
               Some(<<"h","t","t","p",":","/","/","x",".","c","o","/","2">>), None, None, None)

LineSeller == ReportLine(<<"S","e","l","l","e","r",":"," ","A","c","m",
    "e">>, None, None, None, None, Some(<<"A","c","m","e">>), None)

\* the seller label with nothing after its colon
LineSellerEmpty == ReportLine(<<"S","e","l","l","e","r",
    ":">>, None, None, None, None, Some(<<>>), None)

LinePrice == ReportLine(<<"P","r","i","c","e",":"," ","$","1",".","0",
    "0">>, None, Some(1000), None, None, None, None)

LinePriceDearer == ReportLine(<<"P","r","i","c","e",":"," ","$","2",".","5",
    "0">>, None, Some(2500), None, None, None, None)

LineUrl ==
    ReportLine(<<"U","R","L",":"," ","h","t","t","p",":","/","/","x",".","c","o","/",
        "1">>, None, None, Some(<<"h","t","t","p",":","/","/","x",".","c","o","/",
        "1">>), None, None, None)

LineAvailability ==
    ReportLine(<<"A","v","a","i","l","a","b","i","l","i","t","y",":"," ","I","n"," ","s",
        "t","o","c","k">>, None, None, None, Some(<<"I","n"," ","s","t","o","c",
        "k">>), None, None)

LineVariant == ReportLine(<<"V","a","r","i","a","n","t"," ","m","a","t","c","h",":"," ","n",
    "o">>, None, None, None, None, None, Some(FALSE))

ReportLines ==
    {LineAmazon, LineBestBuy, LineAlsoAmazon, LineSeller, LineSellerEmpty, LinePrice,
     LinePriceDearer, LineUrl, LineAvailability, LineVariant}

\* the three lines of the specification's example
ExampleLines ==
    <<LineAmazon,
      ReportLine(<<"P","r","i","c","e",":"," ","$","1","4","9",".","9",
          "9">>, None, Some(149990), None, None, None, None),
      ReportLine(<<"S","e","l","l","e","r",":"," ","A","m","a","z","o","n",".","c","o","m",
          " ","L","L","C">>, Some(Amazon), None, None, None,
                 Some(<<"A","m","a","z","o","n",".","c","o","m"," ","L","L","C">>), None)>>

Reports == UNION {[1..n -> ReportLines] : n \in 0..MaxLines} \cup {ExampleLines}

\* the text of a report: its lines, a line end between them
RECURSIVE ReportText(_)
ReportText(lines) ==
    IF lines = <<>>
    THEN <<>>
    ELSE IF Len(lines) = 1
         THEN Head(lines).text
         ELSE Head(lines).text \o <<"\n">> \o ReportText(Tail(lines))

InitOffers ==
    /\ call \in {[fn |-> "parse_agent_output", arg |-> Some(ReportText(r))] : r \in Reports}
    /\ locals = None
    /\ returned = None
    /\ NoSession

\* lines 43-47: the lines of the text, no current retailer, no offers
ParseBegin ==
    /\ call.fn = "parse_agent_output"
    /\ IsNone(locals)
    /\ IsNone(returned)
    /\ locals' = Some([lines |-> stripped_lines(splitlines(Val(call.arg))),
                       idx |-> 0,
                       current_retailer |-> None,
                       offers_by_retailer |-> <<>>])
    /\ UNCHANGED <<call, returned, session>>

\* the loop with the line at idx + 1 done
after_line(frame, st) ==
    [lines |-> frame.lines,
     idx |-> frame.idx + 1,
     current_retailer |-> st.current_retailer,
     offers_by_retailer |-> st.offers_by_retailer]

\* lines 49-60: one pass of the loop over the lines
ScanLine ==
    /\ ~IsNone(locals)
    /\ IsNone(returned)
    /\ Val(locals).idx < Len(Val(locals).lines)
    /\ locals' = Some(after_line(Val(locals),
                                 scan_line([current_retailer |-> Val(locals).current_retailer,
                                            offers_by_retailer |->
                                                Val(locals).offers_by_retailer],
                                           Val(locals).lines[Val(locals).idx + 1])))
    /\ UNCHANGED <<call, returned, session>>

\* lines 62-74: the offers are built, the chosen offer and the budget answer
\* are looked for, and the call returns
ParseEnd ==
    /\ ~IsNone(locals)
    /\ IsNone(returned)
    /\ Val(locals).idx = Len(Val(locals).lines)
    /\ returned' = Some(ParsedAgentOutput(
                            Val(call.arg),
                            build_offers(Val(locals).offers_by_retailer),
                            _parse_chosen_offer(Val(call.arg), Val(locals).lines),
                            _parse_within_budget(Val(call.arg), Val(locals).lines)))
    /\ UNCHANGED <<call, locals, session>>

NextOffers == ParseBegin \/ ScanLine \/ ParseEnd

SpecOffers == InitOffers /\ [][NextOffers]_vars

----------------------------------------------------------------------------
(* Reports that answer the budget question, on one line or on two           *)

\* the question with the cap, for the answer on the same line
BudgetQuestions ==
    {<<"W","i","t","h","i","n"," ","b","u","d","g","e","t"," ","(","$","2","0","0"," ","h",
        "a","r","d"," ","c","a","p",")","?">>, <<"w","i","t","h","i","n"," ","b","u","d",
        "g","e","t"," ","$","2","0","0"," ","h","a","r","d"," ","c","a","p","?">>,
     <<"W","I","T","H","I","N"," ","B","U","D","G","E","T"," ","(","1","9","9",".","9","9",
         " ","H","A","R","D"," ","C","A","P",")","?">>}

\* the question as a line of its own, for the answer on the next line
BudgetHeadings == {<<"W","i","t","h","i","n"," ","b","u","d","g","e","t">>, <<"W","i","t",
    "h","i","n"," ","b","u","d","g","e","t","?">>, <<"W","I","T","H","I","N"," ","B","U",
    "D","G","E","T",":">>}

\* what a report answers, and what the answer means: yes, no, or neither
BudgetAnswers ==
    {[text |-> <<"y","e","s">>, means |-> Some(TRUE)],
     [text |-> <<"Y","E","S">>, means |-> Some(TRUE)],
     [text |-> <<"n","o">>, means |-> Some(FALSE)],
     [text |-> <<"N","o">>, means |-> Some(FALSE)],
     [text |-> <<"m","a","y","b","e">>, means |-> None],
     [text |-> <<"N","o","t"," ","s","u","r","e">>, means |-> None],
     [text |-> <<"u","n","k","n","o","w","n",","," ","n","o","t","h","i","n","g"," ","w",
         "a","s"," ","c","h","o","s","e","n">>, means |-> None]}

BudgetReports ==
    [question : BudgetQuestions \cup BudgetHeadings, answer : BudgetAnswers,
     prefix : {<<>>, <<"A","m","a","z","o","n","\n","P","r","i","c","e",":"," ","$","1",".",
         "0","0","\n">>}, suffix : {<<>>, <<"\n","T","h","a","n","k","s">>}]

\* the report: the question, then the answer after a space or on the next
\* line
BudgetText(b) ==
    b.prefix \o b.question
        \o (IF b.question \in BudgetQuestions THEN <<" ">> ELSE <<"\n">>)
        \o b.answer.text \o b.suffix

InitBudget ==
    /\ call \in {[fn |-> "parse_agent_output", arg |-> Some(BudgetText(b))] :
                    b \in BudgetReports}
    /\ locals = None
    /\ returned = None
    /\ NoSession

NextBudget == Parse

SpecBudget == InitBudget /\ [][NextBudget]_vars

----------------------------------------------------------------------------
(* A caller that holds two case studies alike but for the answer of the     *)
(* report's budget line, yes in the first and no in the second              *)

\* the budget line up to its answer, on one line or on two
BudgetLines == {<<"\n","W","i","t","h","i","n"," ","b","u","d","g","e","t"," ","(","$","1",
    " ","h","a","r","d"," ","c","a","p",")","?"," ">>, <<"\n","W","i","t","h","i","n"," ",
    "b","u","d","g","e","t","\n">>}

\* the reports before their budget line
AnsweredTexts == {TextChosenAmazon, TextChosenBestBuy, TextChosenElsewhere, TextRefused}

AnsweredBudgets == {None, Some(500), Some(1000)}

AnsweredEvidence == {<<ItemAmazon, ItemBestBuy>>, <<ItemUsed>>}

\* the case study whose report ends with the budget line and the answer
Answered(budget_usd, text, budget_line, answer, evidence) ==
    CaseStudy(budget_usd, AnyRules, text \o budget_line \o answer, evidence)

AnsweredPairs ==
    {[first |-> Answered(b, t, l, <<"y","e","s">>, ev), second |-> Answered(b, t, l, <<"n",
        "o">>, ev)] :
        b \in AnsweredBudgets, t \in AnsweredTexts, l \in BudgetLines,
        ev \in AnsweredEvidence}

InitAnswers ==
    /\ call = [fn |-> "caller", arg |-> None]
    /\ locals = None
    /\ returned = None
    /\ objects \in AnsweredPairs
    /\ arithmetic \in FloatOutcomes
    /\ results = <<>>

SpecAnswers == InitAnswers /\ [][NextSession]_vars

----------------------------------------------------------------------------
(* evaluate_case_study on every report and every evidence list, under one   *)
(* budget and the most and the least permissive rules: what the chosen      *)
(* price and retailer of the result depend on                               *)

ChosenCaseStudies ==
    {CaseStudy(Some(1000), r, t, ev) :
        r \in {AnyRules, TaskRules(FALSE, FALSE, TRUE)}, t \in AgentTexts,
        ev \in EvidenceLists}

InitChosen ==
    /\ call \in {[fn |-> "evaluate_case_study", arg |-> cs] : cs \in ChosenCaseStudies}
    /\ locals = None
    /\ returned = None
    /\ NoSession

NextChosen == Evaluate

SpecChosen == InitChosen /\ [][NextChosen]_vars

----------------------------------------------------------------------------
(* _qualifies on its own: every combination of an item's fields and rules *)

QualifyRetailers == {Amazon, BestBuy, <<"W","a","l","m","a","r","t">>}

QualifySellers ==
    {None, Some(<<"A","m","a","z","o","n",".","c","o","m">>), Some(<<"B","E","S","T"," ",
        "B","U","Y">>), Some(<<"A","c","m","e">>),
     Some(<<"A","m","a","z","o","n"," ","R","e","n","e","w","e","d">>)}

QualifyAvailabilities ==
    {None, Some(<<"I","n"," ","s","t","o","c","k">>), Some(<<"O","p","e","n","-","B","o",
        "x"," ","d","e","a","l">>), Some(<<"B","o","n","u","s">>)}

QualifyNotes == {None, Some(<<"c","e","r","t","i","f","i","e","d"," ","R","E","F","U","R",
    "B","i","s","h","e","d">>), Some(<<"e","d","u","c","a","t","i","o","n","a","l">>)}

QualifyPrices == {None, Some(1000)}

QualifyItems ==
    {EvidenceItem(r, UrlA1, p, a, s, vm, n) :
        r \in QualifyRetailers, p \in QualifyPrices, a \in QualifyAvailabilities,
        s \in QualifySellers, vm \in {None, Some(TRUE), Some(FALSE)}, n \in QualifyNotes}

InitQualifies ==
    /\ call \in {[fn |-> "_qualifies", arg |-> [item |-> it, rules |-> r]] :
                    it \in QualifyItems, r \in RuleSets}
    /\ locals = None
    /\ returned = None
    /\ NoSession

Qualify ==
    /\ call.fn = "_qualifies"
    /\ IsNone(returned)
    /\ returned' = Some(_qualifies(call.arg.item, call.arg.rules))
    /\ UNCHANGED <<call, locals, session>>

NextQualifies == Qualify

SpecQualifies == InitQualifies /\ [][NextQualifies]_vars

----------------------------------------------------------------------------
(* What the claims speak of *)

EvalReturned == call.fn = "evaluate_case_study" /\ ~IsNone(returned)

\* the indices of the evidence items that qualify under the task's rules
QualifyingIndices(cs) ==
    {i \in 1..Len(cs.evidence) : _qualifies(cs.evidence[i], cs.task.rules)}

\* |a - b|
Distance(a, b) == IF a < b THEN b - a ELSE a - b

\* the text names Amazon, Best Buy or Apple, in any case
MentionsRetailer(text) ==
    \E name \in {<<"a","m","a","z","o","n">>, <<"b","e","s","t"," ","b","u","y">>, <<"b",
        "e","s","t","b","u","y">>, <<"a","p","p","l","e">>} :
        contains(lower(text), name)

\* the text carries the label of the chosen-offer entry, in any case
MentionsChosenLabel(text) == contains(lower(text), <<"c","h","o","s","e","n"," ","r","e",
    "t","a","i","l","e","r">>)

\* the six fields of a result that derive from the agent's decision
AllDecisionFieldsUnknown(res) ==
    /\ IsNone(res.agent_chosen_price_usd)
    /\ IsNone(res.agent_chosen_retailer)
    /\ IsNone(res.agent_choice_qualified)
    /\ IsNone(res.found_best_first_party_price)
    /\ IsNone(res.within_budget)
    /\ IsNone(res.money_left_on_table_usd)

\* the least of a set of indices, 0 when it is empty
FirstOf(indices) ==
    IF indices = {} THEN 0 ELSE CHOOSE i \in indices : \A j \in indices : i <= j

\* the index of the evidence item an offer matches, 0 when none: the first
\* item with the offer's URL, else the only item of the offer's retailer
IndexMatching(evidence, chosen) ==
    IF IsNone(chosen)
    THEN 0
    ELSE IF \E i \in 1..Len(evidence) : Val(chosen).url = Some(evidence[i].url)
         THEN FirstOf({i \in 1..Len(evidence) : Val(chosen).url = Some(evidence[i].url)})
         ELSE IF Cardinality({i \in 1..Len(evidence) :
                                 Val(chosen).retailer = evidence[i].retailer}) = 1
              THEN FirstOf({i \in 1..Len(evidence) :
                               Val(chosen).retailer = evidence[i].retailer})
              ELSE 0

\* the index of the evidence item the chosen offer of a case study matches
MatchedIndex(cs) ==
    IndexMatching(cs.evidence, parse_agent_output(Some(cs.agent_output.raw_text)).chosen)

\* agent_choice_qualified as the claim has it, from the index of the match
QualifiedAt(cs, m) ==
    IF m = 0 THEN None ELSE Some(_qualifies(cs.evidence[m], cs.task.rules))

----------------------------------------------------------------------------
(* C1.  The best qualifying price and retailer are those of the qualifying  *)
(* item with the least price, 0 included; of several at that price the      *)
(* earliest in the evidence; both are None when no item qualifies.          *)
(* The code takes min() with the key "price_usd or inf", which ranks a      *)
(* price of 0 last: the statement fails.                                    *)

C1_BestIsCheapestQualifying ==
    EvalReturned =>
        LET cs == call.arg
            res == Val(returned)
            Q == QualifyingIndices(cs)
            price(i) == Val(cs.evidence[i].price_usd)
        IN  IF Q = {}
            THEN IsNone(res.best_first_party_price_usd)
                 /\ IsNone(res.best_first_party_retailer)
            ELSE LET b == CHOOSE i \in Q :
                              \A j \in Q : price(i) < price(j) \/ (price(i) = price(j) /\ i <= j)
                 IN  /\ res.best_first_party_price_usd = cs.evidence[b].price_usd
                     /\ res.best_first_party_retailer = Some(cs.evidence[b].retailer)

----------------------------------------------------------------------------
(* C2.  _qualifies(item, rules) is true exactly when the item has a price,  *)
(* third parties are allowed or the item is first-party, refurbished        *)
(* listings are allowed or none of availability, seller and notes contains  *)
(* "refurb", "renewed", "open-box" or "used" in any case, and the full set  *)
(* is not required or variant_match is exactly true.                        *)

MentionsRefurbished(item) ==
    \E part \in {item.availability, item.seller, item.notes} :
        /\ ~IsNone(part)
        /\ \E token \in {<<"r","e","f","u","r","b">>, <<"r","e","n","e","w","e",
            "d">>, <<"o","p","e","n","-","b","o","x">>, <<"u","s","e","d">>} :
               contains(lower(Val(part)), token)

C2_QualifiesIffFourConditions ==
    (call.fn = "_qualifies" /\ ~IsNone(returned)) =>
        LET item == call.arg.item
            rules == call.arg.rules
        IN  Val(returned) =
                (/\ ~IsNone(item.price_usd)
                 /\ (rules.allow_third_party \/ _is_first_party(item))
                 /\ (rules.allow_refurbished \/ ~MentionsRefurbished(item))
                 /\ (~rules.require_full_set \/ item.variant_match = Some(TRUE)))

\* an item qualifies under the strictest rules
C2_Witness ==
    /\ call.fn = "_qualifies"
    /\ returned = Some(TRUE)
    /\ call.arg.rules = TaskRules(FALSE, FALSE, TRUE)

----------------------------------------------------------------------------
(* C3.  With a best item, a known chosen price and a choice not known to    *)
(* be disqualified, found_best_first_party_price is true exactly when the   *)
(* prices are within one cent and, if both retailers are known, the         *)
(* retailers are the same; an unknown chosen retailer leaves the decision   *)
(* to the prices.  The parser names an unrecognised retailer "Unknown" and  *)
(* the evaluator compares that name with the best retailer: the statement   *)
(* fails.                                                                   *)

C3_FoundBestIffPriceAndRetailer ==
    EvalReturned =>
        LET res == Val(returned)
            chosen_known ==
                /\ ~IsNone(res.agent_chosen_retailer)
                /\ Val(res.agent_chosen_retailer) # Unknown
            retailers_agree ==
                (chosen_known /\ ~IsNone(res.best_first_party_retailer))
                    => res.agent_chosen_retailer = res.best_first_party_retailer
            d == Distance(Val(res.agent_chosen_price_usd),
                          Val(res.best_first_party_price_usd))
        IN  (/\ ~IsNone(res.best_first_party_price_usd)
             /\ ~IsNone(res.agent_chosen_price_usd)
             /\ res.agent_choice_qualified # Some(FALSE))
            => /\ (d < 10 /\ retailers_agree)
                      => res.found_best_first_party_price = Some(TRUE)
               /\ (d > 10 \/ ~retailers_agree)
                      => res.found_best_first_party_price = Some(FALSE)

----------------------------------------------------------------------------
(* C4.  found_best_first_party_price is None exactly when no item           *)
(* qualifies or the chosen price is not known; when both exist and the      *)
(* choice is known to be disqualified it is false.                          *)

C4_FoundBestUnknownOrFalse ==
    EvalReturned =>
        LET res == Val(returned)
            no_best == QualifyingIndices(call.arg) = {}
        IN  /\ IsNone(res.found_best_first_party_price)
                   <=> (no_best \/ IsNone(res.agent_chosen_price_usd))
            /\ (/\ ~no_best
                /\ ~IsNone(res.agent_chosen_price_usd)
                /\ res.agent_choice_qualified = Some(FALSE))
               => res.found_best_first_party_price = Some(FALSE)

\* a disqualified choice at the best item's retailer and within a cent of its
\* price is still reported as not the best
C4_Witness ==
    /\ EvalReturned
    /\ Val(returned).agent_choice_qualified = Some(FALSE)
    /\ Val(returned).found_best_first_party_price = Some(FALSE)
    /\ Val(returned).agent_chosen_retailer = Val(returned).best_first_party_retailer
    /\ ~IsNone(Val(returned).best_first_party_price_usd)
    /\ Distance(Val(Val(returned).agent_chosen_price_usd),
                Val(Val(returned).best_first_party_price_usd)) < 10

----------------------------------------------------------------------------
(* C5.  money_left_on_table_usd is None unless an item qualifies, the       *)
(* chosen price is known and the choice is not known to be disqualified;    *)
(* otherwise it is the chosen price less the price of the best qualifying   *)
(* item, floored at zero and rounded to whole cents: never negative, a      *)
(* multiple of one cent, and within half a cent of the floored difference.  *)
(* The code subtracts the price of the item its min() picked, which is not  *)
(* the least price when a qualifying item is priced 0 (see C1): the         *)
(* statement fails.                                                         *)

\* the least price of the qualifying items of a case study that has some
BestPrice(cs) ==
    LET Q == QualifyingIndices(cs)
    IN  Val(cs.evidence[CHOOSE i \in Q :
                \A j \in Q : Val(cs.evidence[i].price_usd) <= Val(cs.evidence[j].price_usd)
            ].price_usd)

C5_MoneyLeftFlooredRounded ==
    EvalReturned =>
        LET res == Val(returned)
            known == /\ QualifyingIndices(call.arg) # {}
                     /\ ~IsNone(res.agent_chosen_price_usd)
                     /\ res.agent_choice_qualified # Some(FALSE)
            diff == Val(res.agent_chosen_price_usd) - BestPrice(call.arg)
            floored == IF diff > 0 THEN diff ELSE 0
            left == Val(res.money_left_on_table_usd)
        IN  IF known
            THEN /\ ~IsNone(res.money_left_on_table_usd)
                 /\ left >= 0
                 /\ left % 10 = 0
                 /\ Distance(left, floored) <= 5
            ELSE IsNone(res.money_left_on_table_usd)

----------------------------------------------------------------------------
(* C6.  within_budget is None unless the task has a budget and the chosen   *)
(* price is known; otherwise it is true exactly when the chosen price is    *)
(* at most the budget.                                                      *)

C6_WithinBudgetInclusive ==
    EvalReturned =>
        LET res == Val(returned)
            budget == call.arg.task.budget_usd
        IN  IF IsNone(budget) \/ IsNone(res.agent_chosen_price_usd)
            THEN IsNone(res.within_budget)
            ELSE res.within_budget = Some(Val(res.agent_chosen_price_usd) <= Val(budget))

\* a chosen price equal to the budget is within it
C6_Witness ==
    /\ EvalReturned
    /\ ~IsNone(call.arg.task.budget_usd)
    /\ Val(returned).agent_chosen_price_usd = call.arg.task.budget_usd
    /\ Val(returned).within_budget = Some(TRUE)

----------------------------------------------------------------------------
(* C7.  agent_choice_qualified is None exactly when no evidence item        *)
(* matches the chosen offer (or there is no chosen offer); otherwise it is  *)
(* _qualifies of the matched item under the task's rules.                   *)

C7_ChoiceQualifiedIffMatched ==
    EvalReturned =>
        Val(returned).agent_choice_qualified = QualifiedAt(call.arg, MatchedIndex(call.arg))

\* an offer without a URL matches the only item of its retailer, which does
\* not qualify, while another item does
C7_Witness ==
    /\ EvalReturned
    /\ call.arg.agent_output.raw_text = TextChosenBestBuy
    /\ Val(returned).agent_choice_qualified = Some(FALSE)
    /\ QualifyingIndices(call.arg) # {}

----------------------------------------------------------------------------
(* C8.  As claimed: a case study whose text names no known retailer         *)
(* evaluates to a result whose six decision fields are all None.  A text    *)
(* can carry the chosen-offer label with a price or a URL and no retailer,  *)
(* and the chosen price is then known: the statement fails.                 *)

C8_NoRetailerAllUnknown ==
    (EvalReturned /\ ~MentionsRetailer(call.arg.agent_output.raw_text))
        => AllDecisionFieldsUnknown(Val(returned))

(* C8, amended.  A case study whose text names no known retailer and        *)
(* carries no chosen-offer label evaluates to a result whose six decision   *)
(* fields are all None.                                                     *)

C8_NoRetailerNoLabelAllUnknown ==
    (/\ EvalReturned
     /\ ~MentionsRetailer(call.arg.agent_output.raw_text)
     /\ ~MentionsChosenLabel(call.arg.agent_output.raw_text))
        => AllDecisionFieldsUnknown(Val(returned))

\* such a text, with a budget and a qualifying item to compare against
C8_Witness ==
    /\ EvalReturned
    /\ ~MentionsRetailer(call.arg.agent_output.raw_text)
    /\ ~MentionsChosenLabel(call.arg.agent_output.raw_text)
    /\ ~IsNone(call.arg.task.budget_usd)
    /\ ~IsNone(Val(returned).best_first_party_price_usd)

----------------------------------------------------------------------------
(* C9.  Neither parse_agent_output, on any text or on None, nor             *)
(* evaluate_case_study raises: every call returns, without an exception.    *)

C9_NeverRaises == ~IsNone(returned) => IsNone(Val(returned).exc)

\* the label ends the text: the two lines looked ahead at do not exist, no
\* price is found, and the call still returns an offer
C9_Witness ==
    /\ call.fn = "parse_agent_output"
    /\ call.arg = Some(ChosenLabelOnly)
    /\ ~IsNone(returned)
    /\ ~IsNone(Val(returned).chosen)
    /\ IsNone(Val(Val(returned).chosen).price_usd)


----------------------------------------------------------------------------
(* The loader *)

\* the paths of the directory that load_case_studies reads
SourcesOf(fixtures_dir) ==
    IF IsNone(fixtures_dir)
    THEN {}
    ELSE {p \in DOMAIN Val(fixtures_dir) : Val(fixtures_dir)[p].json_file}

\* what each source comes to on its own: its case study, or its exception
Loads(fixtures_dir) ==
    [p \in SourcesOf(fixtures_dir) |-> load_path(fixtures_dir, p)]

\* the sources that are malformed JSON or violate the schema
FailingSources(loads) == {p \in DOMAIN loads : ~IsNone(loads[p].exc)}

LoadReturned == call.fn = "load_case_studies" /\ ~IsNone(returned)

\* what the call made available to its caller: the case studies it returned
Available == IF IsNone(Val(returned).exc) THEN Val(returned).v ELSE <<>>

\* the errors the call reported to its caller
ErrorsReported == IF IsNone(Val(returned).exc) THEN 0 ELSE 1

\* every valid source's case study is available and there is one error per
\* failing source
FailureIsLocal(loads) ==
    /\ \A p \in DOMAIN loads \ FailingSources(loads) :
           \E i \in 1..Len(Available) : Available[i] = loads[p].v
    /\ ErrorsReported = Cardinality(FailingSources(loads))

\* C10: when load_case_studies has processed a directory, the case study of
\* every source that is valid is available to the caller, whatever the other
\* sources are, and one error is reported per failing source
C10_FailureIsLocalToSource == LoadReturned => FailureIsLocal(Loads(call.arg))
----------------------------------------------------------------------------
(* C11.  Every failure of load_case_studies that a source's content causes  *)
(* is a CaseStudyLoadError that names the source's path and says "Invalid   *)
(* JSON" for text that is no JSON and "Schema error" otherwise; no other    *)
(* exception escapes.  The loader catches SchemaError alone: the ValueError *)
(* of an unparseable timestamp and the AttributeError of a document or an   *)
(* evidence entry that is no object escape as they are: the statement       *)
(* fails.                                                                   *)

C11_FailureIsCaseStudyLoadError ==
    (LoadReturned /\ ~IsNone(Val(returned).exc)) =>
        /\ Val(Val(returned).exc).type = "CaseStudyLoadError"
        /\ Val(Val(returned).exc).path \in SourcesOf(call.arg)
        /\ Val(Val(returned).exc).what =
               IF Val(call.arg)[Val(Val(returned).exc).path].text.malformed
               THEN "Invalid JSON"
               ELSE "Schema error"

----------------------------------------------------------------------------
(* What the claims about the schema speak of *)

FromDictReturned == call.fn = "CaseStudy.from_dict" /\ ~IsNone(returned)

\* the key a path ends in: what an error message names
KeyOf(path) == path[Len(path)]

\* the kind the message of a missing required field expects
ExpectedKind(path) ==
    IF path \in StringPaths \cup TimestampPaths
    THEN "non-empty string"
    ELSE IF path \in ObjectPaths
         THEN "object"
         ELSE IF path \in RulePaths
              THEN "boolean"
              ELSE IF path = <<"evidence">> THEN "list" ELSE "non-empty list"

\* the object that should hold the field is there and has no such key
RECURSIVE is_missing(_, _)
is_missing(doc, path) ==
    IF Head(path) = "item"
    THEN doc.k = "list" /\ doc.items # <<>> /\ is_missing(Head(doc.items), Tail(path))
    ELSE /\ doc.k = "dict"
         /\ IF Len(path) = 1
            THEN Head(path) \notin DOMAIN doc.f
            ELSE Head(path) \in DOMAIN doc.f /\ is_missing(doc.f[Head(path)], Tail(path))

\* the required fields a document is missing
MissingPaths(doc) == {p \in RequiredPaths : is_missing(doc, p)}

----------------------------------------------------------------------------
(* C12.  As claimed: for any document missing a required field,             *)
(* CaseStudy.from_dict fails with a SchemaError that names a missing field  *)
(* and the kind expected of it, and returns nothing.  Construction stops    *)
(* at the first invalid field, in the order the fields are read: when a     *)
(* field read earlier is invalid the error is about that field, and it is   *)
(* no SchemaError when that field is a timestamp: the statement fails.      *)

C12_MissingFieldNamed ==
    (FromDictReturned /\ MissingPaths(call.arg) # {}) =>
        \E p \in MissingPaths(call.arg) :
            Val(returned) = SchemaError(ExpectedKind(p), KeyOf(p))

(* C12, amended.  For a document that meets the schema but for one          *)
(* required field that is missing, CaseStudy.from_dict fails with a         *)
(* SchemaError that names that field and the kind expected of it, and       *)
(* returns nothing.                                                         *)

C12_OnlyMissingFieldNamed ==
    FromDictReturned =>
        \A p \in RequiredPaths :
            call.arg = put(DocFull, p, Absent)
                => Val(returned) = SchemaError(ExpectedKind(p), KeyOf(p))

\* the timestamp of an evidence entry is missing, and the error names it
C12_Witness ==
    /\ FromDictReturned
    /\ call.arg = put(DocFull, <<"evidence", "item", "timestamp">>, Absent)
    /\ Val(returned) = SchemaError("non-empty string", "timestamp")

----------------------------------------------------------------------------
(* C13.  A document whose created_at, agent_output.captured_at or evidence  *)
(* timestamp is a non-empty text that is no ISO-8601 date or time fails     *)
(* with a SchemaError, as a missing or mistyped field does; a timestamp     *)
(* that ends in Z is accepted.  _parse_iso8601 lets the ValueError of       *)
(* datetime.fromisoformat through: the statement fails.                     *)

C13_BadTimestampIsSchemaError ==
    FromDictReturned =>
        \A p \in TimestampPaths :
            /\ \A t \in UnparseableTimestamps :
                   call.arg = put(DocFull, p, JStr(t))
                       => /\ ~IsNone(Val(returned).exc)
                          /\ Val(Val(returned).exc).type = "SchemaError"
            /\ \A t \in ZuluTimestamps :
                   call.arg = put(DocFull, p, JStr(t)) => IsNone(Val(returned).exc)

----------------------------------------------------------------------------
(* C14.  A boolean field (the three rules, variant_match) takes a literal   *)
(* boolean alone, and a numeric field (budget_usd, price_usd) an integer or *)
(* a floating-point number alone: a value of any other kind is rejected     *)
(* with a SchemaError that names the field, a literal boolean in a numeric  *)
(* field included.  _opt_float tests isinstance(value, (int, float)), which *)
(* holds of True and False: the statement fails.                            *)

\* the kinds of value that are there, and not null
OtherKinds(kinds) == {v \in Replacements : v.k \notin kinds \cup {"absent", "null"}}

C14_NoCoercionAcrossKinds ==
    FromDictReturned =>
        /\ \A p \in BooleanPaths : \A v \in OtherKinds({"bool"}) :
               call.arg = put(DocFull, p, v)
                   => Val(returned) = SchemaError("boolean", KeyOf(p))
        /\ \A p \in NumberPaths : \A v \in OtherKinds({"int", "float"}) :
               call.arg = put(DocFull, p, v)
                   => Val(returned) = SchemaError("number", KeyOf(p))
        /\ \A p \in NumberPaths : \A v \in {JInt(0), JInt(1), JFloat(1500)} :
               call.arg = put(DocFull, p, v) => IsNone(Val(returned).exc)

----------------------------------------------------------------------------
(* C15.  A document whose allowed_retailers or evidence is there and empty  *)
(* fails with a SchemaError, and a document without canonical_listings      *)
(* gets the empty list for it.  evidence is read with _require_list, which  *)
(* takes any list, the empty one too: the statement fails.                  *)

C15_RequiredListsNonEmpty ==
    FromDictReturned =>
        /\ \A p \in {<<"task", "allowed_retailers">>, <<"evidence">>} :
               call.arg = put(DocFull, p, JList(<<>>))
                   => /\ ~IsNone(Val(returned).exc)
                      /\ Val(Val(returned).exc).type = "SchemaError"
        /\ call.arg = put(DocFull, CanonicalListingsPath, Absent)
               => /\ IsNone(Val(returned).exc)
                  /\ Val(returned).v.task.canonical_listings = <<>>

----------------------------------------------------------------------------
(* C16.  In every CaseStudy that CaseStudy.from_dict returns, the price of  *)
(* each evidence item and the budget of the task are None or no less than   *)
(* zero.  _opt_float takes any number: the statement fails.                 *)

C16_PricesNonNegative ==
    (FromDictReturned /\ IsNone(Val(returned).exc)) =>
        /\ \A i \in 1..Len(Val(returned).v.evidence) :
               \/ IsNone(Val(returned).v.evidence[i].price_usd)
               \/ Val(Val(returned).v.evidence[i].price_usd) >= 0
        /\ \/ IsNone(Val(returned).v.task.budget_usd)
           \/ Val(Val(returned).v.task.budget_usd) >= 0

----------------------------------------------------------------------------
(* C17.  Whatever calls of evaluate_case_study a caller makes, in whatever  *)
(* order and on whichever of its case studies: the calls on one case study  *)
(* all return the same result, calls on equal case studies return equal     *)
(* results wherever they come in the sequence, and every case study is as   *)
(* it was when it was passed, its evidence in the same order.               *)

----------------------------------------------------------------------------
\* parse_agent_output has returned
ParseReturned == call.fn = "parse_agent_output" /\ ~IsNone(returned)

\* the offer a report gives by a retailer, a price and a URL
OfferNamed(mention, price, url) ==
    Some(ParsedOffer(mention.retailer, Some(price.mills), Some(url), None, None, None))

(* C18.  When the text has one line made of the label "chosen retailer +    *)
(* price + url:", in any case, and after it a known retailer's name, a      *)
(* currency amount and a URL, parse_agent_output returns a chosen offer     *)
(* with that retailer, that amount as its price and exactly that URL.       *)

C18_SingleLineEntryParsed ==
    \A e \in Entries :
        (ParseReturned /\ call.arg = Some(EntryText(e)))
            => /\ IsNone(Val(returned).exc)
               /\ Val(returned).chosen = OfferNamed(e.mention, e.price, e.url)

\* the example of the specification: Best Buy, 147.00 and the URL as written
C18_Witness ==
    /\ ParseReturned
    /\ call.arg = Some(<<"C","h","o","s","e","n"," ","r","e","t","a","i","l","e","r"," ",
        "+"," ","p","r","i","c","e"," ","+"," ","u","r","l",":"," ","B","e","s","t"," ","B",
        "u","y"," ","$","1","4","7",".","0","0"," ","h","t","t","p","s",":","/","/","b","e",
        "s","t","b","u","y",".","e","x","a","m","p","l","e","/","x">>)
    /\ Val(returned).chosen
           = Some(ParsedOffer(BestBuy, Some(147000), Some(<<"h","t","t","p","s",":","/","/",
               "b","e","s","t","b","u","y",".","e","x","a","m","p","l","e","/","x">>),
                              None, None, None))

----------------------------------------------------------------------------
(* C19.  When a line that is the label alone, in any case and with or       *)
(* without a colon at its end, has a line containing "no valid choice"      *)
(* among the next one or two non-blank lines, parse_agent_output returns    *)
(* no chosen offer, and evaluate_case_study reports the chosen price and    *)
(* the chosen retailer as unknown.                                          *)

C19_RefusalIsNoChoice ==
    \A r \in Refusals :
        /\ (ParseReturned /\ call.arg = Some(RefusalText(r)))
               => IsNone(Val(returned).chosen)
        /\ (EvalReturned /\ call.arg = RefusalCaseStudy(r))
               => /\ IsNone(Val(returned).agent_chosen_price_usd)
                  /\ IsNone(Val(returned).agent_chosen_retailer)

----------------------------------------------------------------------------
(* C20.  When the text has no chosen-offer entry on one line but a line     *)
(* that is the label alone, in any case and with or without a colon at its  *)
(* end, then a non-blank line with the retailer and the price, then a       *)
(* non-blank line with the URL, parse_agent_output returns a chosen offer   *)
(* with that retailer, that price and the URL of the second line after the  *)
(* label.                                                                   *)

C20_BlockEntryParsed ==
    \A b \in Blocks :
        (ParseReturned /\ call.arg = Some(BlockText(b)))
            => /\ IsNone(Val(returned).exc)
               /\ Val(returned).chosen = OfferNamed(b.mention, b.price, b.url)

----------------------------------------------------------------------------
\* _match_offer_to_evidence has returned
MatchReturned == call.fn = "_match_offer_to_evidence" /\ ~IsNone(returned)

\* the indices of the evidence items with the offer's URL
UrlHits(offer, evidence) ==
    {i \in 1..Len(evidence) : offer.url = Some(evidence[i].url)}

\* the indices of the evidence items of the offer's retailer
RetailerHits(offer, evidence) ==
    {i \in 1..Len(evidence) : offer.retailer = evidence[i].retailer}

(* C21.  _match_offer_to_evidence returns the first evidence item with the  *)
(* offer's URL when the offer has a URL and some item has it; otherwise the *)
(* one evidence item of the offer's retailer when exactly one item carries  *)
(* that retailer; and None with no such item, with several, or with no      *)
(* offer.                                                                   *)

C21_UrlThenSingleRetailer ==
    MatchReturned =>
        LET evidence == call.arg.evidence
            match == Val(returned)
        IN  IF IsNone(call.arg.offer)
            THEN IsNone(match)
            ELSE LET offer == Val(call.arg.offer)
                     urls == UrlHits(offer, evidence)
                     retailers == RetailerHits(offer, evidence)
                 IN  IF urls # {}
                     THEN match = Some(evidence[FirstOf(urls)])
                     ELSE IF Cardinality(retailers) = 1
                          THEN match = Some(evidence[FirstOf(retailers)])
                          ELSE IsNone(match)

\* the offer names Amazon and carries the URL of the Best Buy item: the two
\* rules point at different items, and the URL decides
C21_Witness ==
    /\ MatchReturned
    /\ call.arg.offer = Some(ParsedOffer(Amazon, Some(1000), Some(UrlB1), None, None, None))
    /\ call.arg.evidence = <<ItemAmazon, ItemBestBuy>>
    /\ Val(returned) = Some(ItemBestBuy)

----------------------------------------------------------------------------
\* the chosen price and retailer of a result are those of evidence item m
\* when it has a price, else those of the parser's chosen offer
ChosenFromEvidenceOrParser(res, evidence, chosen, m) ==
    IF m # 0 /\ ~IsNone(evidence[m].price_usd)
    THEN /\ res.agent_chosen_price_usd = evidence[m].price_usd
         /\ res.agent_chosen_retailer = Some(evidence[m].retailer)
    ELSE /\ res.agent_chosen_price_usd = Val(chosen).price_usd
         /\ res.agent_chosen_retailer = Some(Val(chosen).retailer)

\* as the claim has them, for the chosen offer the parser returns
ChosenAsClaimed(res, evidence, chosen) ==
    IF IsNone(chosen)
    THEN IsNone(res.agent_chosen_price_usd) /\ IsNone(res.agent_chosen_retailer)
    ELSE ChosenFromEvidenceOrParser(res, evidence, chosen, IndexMatching(evidence, chosen))

(* C22.  When the chosen offer matches an evidence item that has a price,   *)
(* the result's chosen price and retailer are that item's, whatever the     *)
(* parser extracted; with no match, or a matched item without a price, they *)
(* are the parser's own; with no chosen offer both are None.                *)

C22_EvidenceOverridesParser ==
    EvalReturned =>
        ChosenAsClaimed(Val(returned), call.arg.evidence,
                        parse_agent_output(Some(call.arg.agent_output.raw_text)).chosen)

\* the report chooses Best Buy at $1.01 with a URL no evidence has; the one
\* Best Buy item costs $1.00, and the result carries the item's price
C22_Witness ==
    /\ EvalReturned
    /\ call.arg.agent_output.raw_text = TextChosenElsewhere
    /\ call.arg.evidence = <<ItemBestBuy>>
    /\ Val(returned).agent_chosen_price_usd = Some(1000)
    /\ Val(returned).agent_chosen_retailer = Some(BestBuy)

----------------------------------------------------------------------------
\* the retailers that have an expected seller text, and that text
ConfiguredSellers ==
    {[retailer |-> <<"a","m","a","z","o","n">>, substring |-> <<"a","m","a","z","o","n",".",
        "c","o","m">>],
     [retailer |-> <<"b","e","s","t"," ","b","u","y">>, substring |-> <<"b","e","s","t"," ",
         "b","u","y">>],
     [retailer |-> <<"a","p","p","l","e">>, substring |-> <<"a","p","p","l","e">>]}

(* C23.  _is_first_party(item) is true exactly when the item has a seller   *)
(* text, its retailer is in any case Amazon, Best Buy or Apple, and the     *)
(* seller text in lower case contains "amazon.com", "best buy" or "apple"   *)
(* respectively; without a seller text, or with another retailer, it is     *)
(* false.                                                                   *)

C23_FirstPartyIffExpectedSeller ==
    (call.fn = "_is_first_party" /\ ~IsNone(returned)) =>
        (Val(returned)
            <=> /\ ~IsNone(call.arg.seller)
                /\ \E c \in ConfiguredSellers :
                       /\ lower(call.arg.retailer) = c.retailer
                       /\ contains(lower(Val(call.arg.seller)), c.substring))

\* a retailer in upper case and a seller text that contains the expected
\* text in another case
C23_Witness ==
    /\ call.fn = "_is_first_party"
    /\ call.arg.retailer = <<"A","M","A","Z","O","N">>
    /\ call.arg.seller = Some(<<"S","o","l","d"," ","b","y"," ","A","M","A","Z","O","N",".",
        "C","O","M"," ","S","e","r","v","i","c","e","s"," ","L","L","C">>)
    /\ returned = Some(TRUE)

----------------------------------------------------------------------------
(* What the claims on the offers speak of: the report as its author wrote   *)
(* it, line by line                                                         *)

\* the line a text is
LineNamed(text) ==
    CHOOSE l \in ReportLines \cup {ExampleLines[i] : i \in DOMAIN ExampleLines} : l.text = text

\* the lines of the report a call parses
LinesOf(raw_text) ==
    LET texts == splitlines(raw_text)
    IN  [i \in 1..Len(texts) |-> LineNamed(texts[i])]

\* the greatest of a non-empty set of indices
LastOf(indices) == CHOOSE i \in indices : \A j \in indices : j <= i

\* the retailer named on the most recent line at or before line i that
\* names one, None when none does
RetailerAt(lines, i) ==
    IF \A j \in 1..i : IsNone(lines[j].retailer)
    THEN None
    ELSE lines[LastOf({j \in 1..i : ~IsNone(lines[j].retailer)})].retailer

\* the lines that belong to a retailer and give a field
LinesGiving(lines, retailer, field) ==
    {i \in 1..Len(lines) : RetailerAt(lines, i) = Some(retailer) /\ ~IsNone(lines[i][field])}

OfferFields == {"price_usd", "url", "availability", "seller", "variant_match"}

\* the field as its earliest line gives it, None when no line gives it
EarliestGiven(lines, retailer, field) ==
    IF LinesGiving(lines, retailer, field) = {}
    THEN None
    ELSE lines[FirstOf(LinesGiving(lines, retailer, field))][field]

\* every field of every offer is the one its retailer's earliest line gives
FirstMatchWins(lines, offers) ==
    \A k \in DOMAIN offers : \A field \in OfferFields :
        offers[k][field] = EarliestGiven(lines, offers[k].retailer, field)

(* C24.  Field capture is first-match-wins per retailer: each field of an   *)
(* emitted offer is the value of the earliest line of that retailer that    *)
(* gives the field, and no later line of the retailer changes it, also      *)
(* when the text captured after the colon is empty.                         *)

C24_FirstMatchWins ==
    ParseReturned => FirstMatchWins(LinesOf(Val(call.arg)), Val(returned).offers)

----------------------------------------------------------------------------
\* every field of every offer comes from a line of the offer's retailer,
\* and is None only when no such line gives it
FieldsFromOwnLines(lines, offers) ==
    \A k \in DOMAIN offers : \A field \in OfferFields :
        IF LinesGiving(lines, offers[k].retailer, field) = {}
        THEN IsNone(offers[k][field])
        ELSE \E i \in LinesGiving(lines, offers[k].retailer, field) :
                 offers[k][field] = lines[i][field]

(* C25.  After each line is processed the current retailer is the known     *)
(* retailer named, in any case, on the most recent line at or before it     *)
(* that names one, None before the first such line; every field an offer    *)
(* carries comes from a line processed under its retailer, and the lines    *)
(* before the first retailer go to no offer.                                *)

C25_CurrentRetailerIsLastNamed ==
    /\ (~IsNone(locals) /\ Val(locals).idx > 0)
           => Val(locals).current_retailer
                  = RetailerAt(LinesOf(Val(call.arg)), Val(locals).idx)
    /\ ParseReturned
           => FieldsFromOwnLines(LinesOf(Val(call.arg)), Val(returned).offers)

\* a price before any retailer, then Best Buy, then a line that names Amazon
\* in upper case: the context has moved to Amazon, and the first price is in
\* no offer
C25_Witness ==
    /\ ParseReturned
    /\ call.arg = Some(ReportText(<<LinePrice, LineBestBuy, LineAlsoAmazon>>))
    /\ Val(locals).current_retailer = Some(Amazon)
    /\ Len(Val(returned).offers) = 2
    /\ Val(returned).offers[1].price_usd = None
    /\ Val(returned).offers[2].price_usd = Some(3000)

----------------------------------------------------------------------------
\* the retailers a report names, in the order of their first mention
RECURSIVE FirstMentions(_, _)
FirstMentions(lines, seen) ==
    IF lines = <<>>
    THEN <<>>
    ELSE IF IsNone(Head(lines).retailer) \/ Val(Head(lines).retailer) \in seen
         THEN FirstMentions(Tail(lines), seen)
         ELSE <<Val(Head(lines).retailer)>>
                  \o FirstMentions(Tail(lines), seen \cup {Val(Head(lines).retailer)})

\* the retailers of a list of offers, in its order
RetailersOf(offers) == [k \in DOMAIN offers |-> offers[k].retailer]

(* C26.  parse_agent_output emits exactly one offer for each known retailer *)
(* named on some line, however often and in whatever interleaving the       *)
(* retailers are named, in the order of first mention, and no offer when    *)
(* none is named.                                                           *)

C26_OneOfferPerRetailer ==
    ParseReturned =>
        RetailersOf(Val(returned).offers) = FirstMentions(LinesOf(Val(call.arg)), {})

\* the example of the specification: one Amazon offer, price 149.99, seller
\* text containing "Amazon.com"
C26_Witness ==
    /\ ParseReturned
    /\ call.arg = Some(<<"A","m","a","z","o","n","\n","P","r","i","c","e",":"," ","$","1",
        "4","9",".","9","9","\n","S","e","l","l","e","r",":"," ","A","m","a","z","o","n",
        ".","c","o","m"," ","L","L","C">>)
    /\ Len(Val(returned).offers) = 1
    /\ Val(returned).offers[1].retailer = Amazon
    /\ Val(returned).offers[1].price_usd = Some(149990)
    /\ contains(Val(Val(returned).offers[1].seller), <<"A","m","a","z","o","n",".","c","o",
        "m">>)

----------------------------------------------------------------------------
(* C27.  The parser's within_budget is true for the answer yes and false    *)
(* for the answer no, in any case, given on the line of the question        *)
(* "within budget ... hard cap ...?" or on the line after a line that       *)
(* starts with "within budget"; it is None when the answer is neither yes   *)
(* nor no.                                                                  *)

C27_WithinBudgetIsTheAnswer ==
    \A b \in BudgetReports :
        (ParseReturned /\ call.arg = Some(BudgetText(b)))
            => Val(returned).within_budget = b.answer.means

----------------------------------------------------------------------------
(* C28.  Whenever agent_choice_qualified is true, there is a best           *)
(* qualifying price, it is at most the chosen price, and the money left on  *)
(* the table is the chosen price minus the best price.                      *)
(* The chosen item is among the qualifying items, but min() with the key    *)
(* "price_usd or inf" ranks a chosen price of 0 last: the statement fails.  *)

C28_QualifiedChoiceBoundsBest ==
    (EvalReturned /\ Val(returned).agent_choice_qualified = Some(TRUE)) =>
        LET res == Val(returned)
        IN  /\ ~IsNone(res.best_first_party_price_usd)
            /\ ~IsNone(res.agent_chosen_price_usd)
            /\ Val(res.best_first_party_price_usd) <= Val(res.agent_chosen_price_usd)
            /\ res.money_left_on_table_usd
                   = Some(Val(res.agent_chosen_price_usd)
                              - Val(res.best_first_party_price_usd))

----------------------------------------------------------------------------
(* C29.  In every result, found_best_first_party_price true implies that    *)
(* money_left_on_table_usd is 0.00, for prices of any resolution below a    *)
(* cent.                                                                    *)
(* Prices less than a cent apart compare equal, while their difference      *)
(* rounds to a cent from half a cent up: the statement fails.               *)

C29_FoundBestLeavesNothing ==
    (EvalReturned /\ Val(returned).found_best_first_party_price = Some(TRUE))
        => Val(returned).money_left_on_table_usd = Some(0)

----------------------------------------------------------------------------
\* within_budget as the chosen price and the task's budget alone give it
BudgetVerdict(budget_usd, agent_chosen_price) ==
    IF IsNone(budget_usd) \/ IsNone(agent_chosen_price)
    THEN None
    ELSE Some(Val(agent_chosen_price) <= Val(budget_usd))

(* C30.  The result does not depend on the agent's own budget answer: two   *)
(* case studies that differ only in the yes or no of the report's budget    *)
(* line evaluate to identical results, and the result's within_budget is    *)
(* what the chosen price and the task's budget give.                        *)

C30_AnswerDoesNotCount ==
    \A i \in DOMAIN results :
        /\ results[i].result.within_budget
               = BudgetVerdict(results[i].case_study.task.budget_usd,
                               results[i].result.agent_chosen_price_usd)
        /\ \A j \in DOMAIN results : results[i].result = results[j].result

\* the report says yes in one case study and no in the other, the parser
\* reads the two answers, and the chosen price is over the budget
C30_Witness ==
    /\ Len(results) >= 2
    /\ results[1].name = "first"
    /\ results[2].name = "second"
    /\ parse_agent_output(Some(results[1].case_study.agent_output.raw_text)).within_budget
           = Some(TRUE)
    /\ parse_agent_output(Some(results[2].case_study.agent_output.raw_text)).within_budget
           = Some(FALSE)
    /\ results[1].case_study.task.budget_usd = Some(500)
    /\ results[1].result.agent_chosen_price_usd = Some(1000)
    /\ results[1].result.within_budget = Some(FALSE)
    /\ results[2].result.within_budget = Some(FALSE)
====
